---- MODULE Spec2Model ----
(***************************************************************************)
(* Model of the tape-property calculation engine (tape calculations        *)
(* module: material tables, peel / hold / stretch formulas, aging, UV and  *)
(* residue tint, surface damage risk, composite tape).                     *)
(*                                                                         *)
(* Numbers.  The JavaScript code computes with IEEE doubles.  The model    *)
(* computes with decimal fixed point: a real value v is the integer        *)
(* floor(v * Scale), Scale = 10^6.  Every intermediate product is split    *)
(* so that it stays inside 32-bit integers.  Math.pow, Math.log10          *)
(* and Math.sqrt are computed (series / bisection), not tabulated.         *)
(***************************************************************************)
EXTENDS Integers, Sequences, FiniteSets, TLC

\* ------------------------------------------------------------------------
\* State.  params: the arguments in hand; op: the exported function that was
\* called on them ("none" before the call); result: what the call returned;
\* tables: the contents of the module's five table objects; reported: what
\* calculateTapeProperties has returned so far, per configuration.
\* For the layout helpers: container is the '.five-column' element (its
\* widths, its --gap variable and its inline style), window holds whether
\* ResizeObserver exists, the helpers initialised and those whose callback
\* for the latest resize is still to run; params is the opts of
\* initFiveColumn, op the helper code that ran last, and reported lists the
\* helpers in the order of their first applyTo.
\* ------------------------------------------------------------------------

VARIABLES op, params, result, tables, reported, container, window

vars == <<op, params, result, tables, reported, container, window>>

\* ------------------------------------------------------------------------
\* Fixed-point arithmetic standing for the code's double arithmetic
\* ------------------------------------------------------------------------

\* One unit (1.0) in fixed point.
Scale == 1000 * 1000

\* The values that are not finite numbers.  Infinity is above and
\* NegInfinity below every number the module computes; NaN is below those,
\* so that every ">" and ">=" against a number is false for NaN as it is in
\* JavaScript.  Undefined is a number property that is absent from a params
\* object: arithmetic on it gives NaN.  (An absent key is the string
\* "undefined", which is what a lookup TABLE[undefined] uses as the name.)
Infinity == 2147 * Scale

NegInfinity == 0 - Infinity

NaN == NegInfinity - 1

Undefined == 0 - 2000 * Scale

IsNaN(v) == v = NaN \/ v = Undefined

IsInfinite(v) == v = Infinity \/ v = NegInfinity

IsFinite(v) == ~IsNaN(v) /\ ~IsInfinite(v)

\* Math.max and Math.min: NaN when an argument is NaN.
Max(a, b) == IF IsNaN(a) \/ IsNaN(b) THEN NaN ELSE IF a >= b THEN a ELSE b

Min(a, b) == IF IsNaN(a) \/ IsNaN(b) THEN NaN ELSE IF a <= b THEN a ELSE b

\* The JavaScript sum a + b and difference a - b.
Add(a, b) ==
  IF IsNaN(a) \/ IsNaN(b) THEN NaN
  ELSE IF IsInfinite(a) THEN (IF IsInfinite(b) /\ a # b THEN NaN ELSE a)
  ELSE IF IsInfinite(b) THEN b
  ELSE a + b

Sub(a, b) ==
  IF IsNaN(a) \/ IsNaN(b) THEN NaN
  ELSE IF IsInfinite(a) THEN (IF a = b THEN NaN ELSE a)
  ELSE IF IsInfinite(b) THEN 0 - b
  ELSE a - b

\* floor(a * b / Scale) for a, b >= 0, exact, no intermediate above 2^31
\* while a * b / Scale itself fits.
MulU(a, b) ==
  LET a1 == a \div 1000
      a0 == a % 1000
      b1 == b \div 1000
      b0 == b % 1000
  IN  a1 * b1 + ((a1 * b0 + a0 * b1 + ((a0 * b0) \div 1000)) \div 1000)

\* The JavaScript product a * b of two numbers (either sign).
Mul(a, b) ==
  IF IsNaN(a) \/ IsNaN(b) THEN NaN
  ELSE IF IsInfinite(a) \/ IsInfinite(b)
    THEN (IF a = 0 \/ b = 0 THEN NaN
          ELSE IF (a < 0) = (b < 0) THEN Infinity ELSE NegInfinity)
  ELSE IF (a < 0) = (b < 0)
    THEN MulU(IF a < 0 THEN -a ELSE a, IF b < 0 THEN -b ELSE b)
    ELSE -MulU(IF a < 0 THEN -a ELSE a, IF b < 0 THEN -b ELSE b)

RECURSIVE DivDigits(_, _, _, _)
\* Long division: n more decimal digits of quotient q, remainder r, divisor b.
DivDigits(q, r, b, n) ==
  IF n = 0
    THEN q
    ELSE DivDigits(q * 10 + ((r * 10) \div b), (r * 10) % b, b, n - 1)

RECURSIVE DivU(_, _)
\* floor(a * Scale / b) for a >= 0, b > 0.
DivU(a, b) ==
  IF b > 200000000
    THEN DivU(a \div 10, b \div 10)
    ELSE DivDigits(a \div b, a % b, b, 6)

\* The JavaScript quotient a / b: x / 0 is infinite, 0 / 0 is NaN.
Div(a, b) ==
  IF IsNaN(a) \/ IsNaN(b) THEN NaN
  ELSE IF IsInfinite(a)
    THEN (IF IsInfinite(b) THEN NaN
          ELSE IF (a < 0) = (b < 0) THEN Infinity ELSE NegInfinity)
  ELSE IF IsInfinite(b) THEN 0
  ELSE IF b = 0
    THEN (IF a = 0 THEN NaN ELSE IF a > 0 THEN Infinity ELSE NegInfinity)
  ELSE IF (a < 0) = (b < 0)
    THEN DivU(IF a < 0 THEN -a ELSE a, IF b < 0 THEN -b ELSE b)
    ELSE -DivU(IF a < 0 THEN -a ELSE a, IF b < 0 THEN -b ELSE b)

RECURSIVE AtanhSeries(_, _, _)
\* z + z^3/3 + z^5/5 + ... ; term = z^n, z2 = z^2.
AtanhSeries(term, z2, n) ==
  IF term = 0 THEN 0 ELSE (term \div n) + AtanhSeries(MulU(term, z2), z2, n + 2)

RECURSIVE LnNorm(_, _)
\* ln(x * 2^k) for x > 0: x is brought into [0.75, 1.5), then
\* ln m = 2 * atanh((m - 1) / (m + 1)), atanh being odd.
LnNorm(x, k) ==
  IF 2 * x >= 3 * Scale THEN LnNorm(x \div 2, k + 1)
  ELSE IF 4 * x < 3 * Scale THEN LnNorm(x * 2, k - 1)
  ELSE LET z == DivU(IF x >= Scale THEN x - Scale ELSE Scale - x, x + Scale)
           a == 2 * AtanhSeries(z, MulU(z, z), 1)
       IN  k * 693147 + (IF x >= Scale THEN a ELSE -a)

\* Math.log (natural logarithm) of x > 0.
Ln(x) == LnNorm(x, 0)

RECURSIVE ExpSeries(_, _, _)
\* 1 + r + r^2/2! + ... ; term = r^(n-1)/(n-1)!.
ExpSeries(term, r, n) ==
  IF term = 0 THEN 0 ELSE term + ExpSeries(MulU(term, r) \div n, r, n + 1)

RECURSIVE Pow2(_)
Pow2(k) == IF k = 0 THEN 1 ELSE 2 * Pow2(k - 1)

\* Math.exp: y = k * ln 2 + r with 0 <= r < ln 2, e^y = 2^k * e^r.
Exp(y) ==
  LET k == y \div 693147
      r == y - k * 693147
      e == ExpSeries(Scale, r, 1)
  IN  IF k >= 0 THEN e * Pow2(k)
      ELSE IF k < -30 THEN 0
      ELSE e \div Pow2(-k)

\* Math.pow(x, p) for a finite p that is not a whole number when x < 0:
\* pow(x, 0) = 1, pow(1, p) = 1, pow(0, p > 0) = 0, pow(x < 0, p) = NaN.
Pow(x, p) ==
  IF p = 0 THEN Scale
  ELSE IF IsNaN(x) THEN NaN
  ELSE IF x = Infinity THEN (IF p > 0 THEN Infinity ELSE 0)
  ELSE IF x < 0 THEN NaN
  ELSE IF x = 0 THEN (IF p > 0 THEN 0 ELSE Infinity)
  ELSE Exp(Mul(Ln(x), p))

\* Math.log10(x): NaN below 0, -Infinity at 0.
Log10(x) ==
  IF IsNaN(x) \/ x < 0 THEN NaN
  ELSE IF x = 0 THEN NegInfinity
  ELSE IF x = Infinity THEN Infinity
  ELSE Div(Ln(x), 2302585)

RECURSIVE SqrtSearch(_, _, _)
\* Largest r in lo..hi with floor(r * r / Scale) <= x (bisection).
SqrtSearch(x, lo, hi) ==
  IF lo >= hi
    THEN lo
    ELSE LET mid == (lo + hi + 1) \div 2
         IN  IF MulU(mid, mid) <= x
               THEN SqrtSearch(x, mid, hi)
               ELSE SqrtSearch(x, lo, mid - 1)

\* Math.sqrt(x) for x <= 100: NaN below 0.
Sqrt(x) ==
  IF IsNaN(x) \/ x < 0 THEN NaN
  ELSE IF x = Infinity THEN Infinity
  ELSE SqrtSearch(x, 0, 10 * Scale)

\* A decimal literal of the source given in thousandths: Milli(950) is 0.95.
Milli(n) == n * 1000

\* A whole number of the source as a fixed-point value.
Whole(n) == n * Scale

\* Number.prototype.toFixed(1): the value rounded to tenths, kept as the
\* integer count of tenths that the returned string spells ("12.1" is 121).
ToFixed1(v) == IF IsFinite(v) THEN (v + 50000) \div 100000 ELSE v

\* toFixed(2): the integer count of hundredths ("2.60" is 260).
ToFixed2(v) == IF IsFinite(v) THEN (v + 5000) \div 10000 ELSE v

\* toFixed(3): the integer count of thousandths ("0.967" is 967).
ToFixed3(v) == IF IsFinite(v) THEN (v + 500) \div 1000 ELSE v

\* parseFloat of a string produced by toFixed(1) / toFixed(2).
ParseFloat1(n) == IF IsFinite(n) THEN n * 100000 ELSE n

ParseFloat2(n) == IF IsFinite(n) THEN n * 10000 ELSE n

\* null / a value, for results that are either (agingEffect, surfaceStrength).
Null == << >>

Some(v) == << v >>

\* ------------------------------------------------------------------------
\* The params object.  A params object is a record with the fields
\*   tape, tape1, tape2, backing, surface, adhesive, environment  (keys)
\*   thickness, width, height  (fixed point), timeImpactDays  (whole days)
\* where an absent key is "undefined" and an absent number is Undefined.
\* Fields of every record of this module are written in the order in which
\* the module first mentions them.
\* ------------------------------------------------------------------------

\* The object literal { tape, surface, adhesive, environment, thickness,
\* timeImpactDays } that calculateMixedTapeProperties passes on: six
\* properties, every other one absent.
TapeParams(tape, surface, adhesive, environment, thickness, timeImpactDays) ==
  [ tape |-> tape, surface |-> surface, adhesive |-> adhesive,
    environment |-> environment, thickness |-> thickness,
    timeImpactDays |-> timeImpactDays,
    tape1 |-> "undefined", tape2 |-> "undefined", backing |-> "undefined",
    width |-> Undefined, height |-> Undefined ]

\* ------------------------------------------------------------------------
\* MATERIAL PROPERTIES DATABASE (the fields the formulas read)
\* ------------------------------------------------------------------------

BACKING_MATERIALS ==
  [ PVC   |-> [ typicalThickness |-> [min |-> 150, max |-> 180, standard |-> 165],
                elongation |-> 25,  uvResistance |-> "poor" ],
    PET   |-> [ typicalThickness |-> [min |-> 25, max |-> 50, standard |-> 36],
                elongation |-> 8,   uvResistance |-> "excellent" ],
    PP    |-> [ typicalThickness |-> [min |-> 25, max |-> 50, standard |-> 41],
                elongation |-> 40,  uvResistance |-> "good" ],
    BOPP  |-> [ typicalThickness |-> [min |-> 20, max |-> 30, standard |-> 25],
                elongation |-> 15,  uvResistance |-> "good" ],
    Paper |-> [ typicalThickness |-> [min |-> 80, max |-> 150, standard |-> 125],
                elongation |-> 2,   uvResistance |-> "fair" ],
    Cloth |-> [ typicalThickness |-> [min |-> 200, max |-> 300, standard |-> 250],
                elongation |-> 12,  uvResistance |-> "good" ],
    Foam  |-> [ typicalThickness |-> [min |-> 400, max |-> 3000, standard |-> 800],
                elongation |-> 200, uvResistance |-> "fair" ] ]

\* peelAdhesion is in the adhesive's own unit: cN/cm, but N/100mm for Rubber.
ADHESIVE_TYPES ==
  [ Acrylic  |-> [ typicalThickness |-> [min |-> 15, max |-> 50, standard |-> 25],
                   uvResistance |-> "excellent", peelAdhesion |-> 260 ],
    Rubber   |-> [ typicalThickness |-> [min |-> 50, max |-> 125, standard |-> 75],
                   uvResistance |-> "poor", peelAdhesion |-> 547 ],
    Silicone |-> [ typicalThickness |-> [min |-> 25, max |-> 75, standard |-> 50],
                   uvResistance |-> "excellent", peelAdhesion |-> 200 ] ]

SurfaceEntry(energy, multiplier) ==
  [ surfaceEnergy |-> energy, adhesionMultiplier |-> multiplier ]

SURFACE_MATERIALS ==
  ( "Steel"              :> SurfaceEntry("high",   Milli(1000)) ) @@
  ( "Aluminum"           :> SurfaceEntry("high",   Milli(950))  ) @@
  ( "Glass"              :> SurfaceEntry("high",   Milli(1050)) ) @@
  ( "Textured Glass"     :> SurfaceEntry("high",   Milli(750))  ) @@
  ( "Plastic Bag"        :> SurfaceEntry("low",    Milli(400))  ) @@
  ( "Door Veneer"        :> SurfaceEntry("medium", Milli(850))  ) @@
  ( "Paper Note"         :> SurfaceEntry("high",   Milli(900))  ) @@
  ( "Manga Paper"        :> SurfaceEntry("high",   Milli(850))  ) @@
  ( "Sketchbook Paper"   :> SurfaceEntry("high",   Milli(800))  ) @@
  ( "Rough Carton"       :> SurfaceEntry("medium", Milli(700))  ) @@
  ( "Wall Paint"         :> SurfaceEntry("medium", Milli(600))  ) @@
  ( "Damaged Wall Paint" :> SurfaceEntry("low",    Milli(300))  ) @@
  ( "Photo"              :> SurfaceEntry("medium", Milli(750))  )

RuptureEntry(lo, hi, typ) == [ min |-> lo, max |-> hi, typical |-> typ ]

\* Force (N/cm) that tears a 1 cm strip of the surface; Null for the
\* surfaces the source lists with null.
SURFACE_RUPTURE_STRENGTH ==
  ( "Paper Note"         :> Some(RuptureEntry(Milli(3500), Milli(4500), Milli(4000))) ) @@
  ( "Manga Paper"        :> Some(RuptureEntry(Whole(3), Whole(20), Milli(11500))) ) @@
  ( "Sketchbook Paper"   :> Some(RuptureEntry(Whole(12), Whole(60), Whole(36))) ) @@
  ( "Photo"              :> Some(RuptureEntry(Whole(50), Whole(400), Whole(225))) ) @@
  ( "Rough Carton"       :> Some(RuptureEntry(Whole(40), Whole(240), Whole(140))) ) @@
  ( "Door Veneer"        :> Some(RuptureEntry(Whole(200), Whole(700), Whole(450))) ) @@
  ( "Wall Paint"         :> Some(RuptureEntry(Whole(5), Whole(150), Milli(77500))) ) @@
  ( "Damaged Wall Paint" :> Some(RuptureEntry(Milli(500), Whole(10), Milli(5250))) ) @@
  ( "Steel"              :> Null ) @@
  ( "Aluminum"           :> Null ) @@
  ( "Glass"              :> Null ) @@
  ( "Textured Glass"     :> Null ) @@
  ( "Plastic Bag"        :> Null ) @@
  ( "Textured / Thick Photo" :> Some(RuptureEntry(Whole(40), Whole(240), Whole(140))) )

EnvEntry(tmin, tmax, ttyp, multiplier, aging) ==
  [ adhesionMultiplier |-> multiplier,
    temperature |-> [min |-> tmin, max |-> tmax, typical |-> ttyp],
    agingFactor |-> aging ]

ENVIRONMENTAL_CONDITIONS ==
  [ Humid    |-> EnvEntry(15, 25, 20, Milli(750),  Milli(1200)),
    Tropical |-> EnvEntry(25, 35, 30, Milli(650),  Milli(1500)),
    Semiarid |-> EnvEntry(20, 30, 25, Milli(950),  Milli(1000)),
    Arid     |-> EnvEntry(25, 40, 32, Milli(850),  Milli(1300)),
    Dry      |-> EnvEntry(18, 25, 21, Milli(1000), Milli(800)) ]

\* TABLE[key] || TABLE[fallback]
OrDefault(table, key, fallback) ==
  IF key \in DOMAIN table THEN table[key] ELSE table[fallback]

\* table[key] || fallback for a table of non-zero numbers
NumberOr(table, key, fallback) ==
  IF key \in DOMAIN table THEN table[key] ELSE fallback

\* ------------------------------------------------------------------------
\* CALCULATION FUNCTIONS
\* ------------------------------------------------------------------------

\* Aging applied whenever the property is there (also for 0 days).
TimeSpecified_whenDefined(p) == p.timeImpactDays # Undefined

\* JavaScript truthiness of timeImpactDays followed by the test > 0:
\* params.timeImpactDays && params.timeImpactDays > 0
TimeSpecified(p) == p.timeImpactDays # Undefined /\ p.timeImpactDays # 0 /\ p.timeImpactDays > 0

calculateTotalThickness(backingMaterial, adhesiveType) ==
  IF backingMaterial \notin DOMAIN BACKING_MATERIALS \/ adhesiveType \notin DOMAIN ADHESIVE_TYPES
    THEN 120
    ELSE BACKING_MATERIALS[backingMaterial].typicalThickness.standard
           + ADHESIVE_TYPES[adhesiveType].typicalThickness.standard

\* A retention that wears with every configuration reported so far (a count
\* kept between calls).
calculateAgingEffects_countingReports(p) ==
  [ peelRetention |-> Scale \div (1 + Cardinality(reported)),
    holdRetention |-> Mul(Scale \div (1 + Cardinality(reported)), Milli(950)),
    stretchChange |-> Scale + Mul(Scale - (Scale \div (1 + Cardinality(reported))), Milli(300)) ]

\* The daily loss subtracted once per day instead of compounded.
AdjustedRetention_linear(dailyDegradation, agingRate, timeImpactDays) ==
  Scale - Mul(Scale - dailyDegradation, agingRate) * timeImpactDays

\* retentionFactor of calculateAgingEffects.
AdjustedRetention(dailyDegradation, agingRate, timeImpactDays) ==
  Pow(Pow(dailyDegradation, agingRate), Whole(timeImpactDays))

calculateAgingEffects(p) ==
  LET envData == OrDefault(ENVIRONMENTAL_CONDITIONS, p.environment, "Dry")
      agingRate == envData.agingFactor
      uvResistance == [ Acrylic |-> Milli(995), Rubber |-> Milli(980), Silicone |-> Milli(997) ]
      dailyDegradation == NumberOr(uvResistance, p.adhesive, Milli(990))
      retentionFactor == AdjustedRetention(dailyDegradation, agingRate, p.timeImpactDays)
      stretchIncrease == Scale + Mul(Scale - retentionFactor, Milli(300))
  IN  [ peelRetention |-> retentionFactor,
        holdRetention |-> Mul(retentionFactor, Milli(950)),
        stretchChange |-> stretchIncrease ]

\* Every adhesive's value taken to be in cN/cm.
BaseAdhesion_allCentinewton(adhesive) ==
  Div(Whole(OrDefault(ADHESIVE_TYPES, adhesive, "Acrylic").peelAdhesion), Whole(100))

\* baseAdhesion of calculatePeelAdhesion: the adhesive's value in N/cm.
BaseAdhesion(adhesive) ==
  LET adhesiveData == OrDefault(ADHESIVE_TYPES, adhesive, "Acrylic")
  IN  IF adhesive = "Rubber"
        THEN Div(Whole(adhesiveData.peelAdhesion), Whole(10))
        ELSE Div(Whole(adhesiveData.peelAdhesion), Whole(100))

\* Acrylic penalised on every surface.
LowEnergyPenalty_everySurface(surfaceEnergy, adhesive) ==
  IF adhesive = "Acrylic" THEN Milli(500)
  ELSE IF surfaceEnergy = "low" /\ adhesive = "Rubber" THEN Milli(800)
  ELSE Milli(1000)

\* lowEnergyPenalty of calculatePeelAdhesion.
LowEnergyPenalty(surfaceEnergy, adhesive) ==
  IF surfaceEnergy = "low" /\ adhesive = "Acrylic" THEN Milli(500)
  ELSE IF surfaceEnergy = "low" /\ adhesive = "Rubber" THEN Milli(800)
  ELSE Milli(1000)

\* finalAdhesion, the value calculatePeelAdhesion has before its Math.max.
\* finalAdhesion after "if (params.timeImpactDays && params.timeImpactDays > 0)".
AgedAdhesion(p, finalAdhesion) ==
  IF TimeSpecified(p)
    THEN Mul(finalAdhesion, calculateAgingEffects(p).peelRetention)
    ELSE finalAdhesion

\* finalAdhesion before any aging: the product of the base adhesion and its
\* four factors.
UnagedAdhesion(p) ==
  LET adhesiveData == OrDefault(ADHESIVE_TYPES, p.adhesive, "Acrylic")
      baseAdhesion == BaseAdhesion(p.adhesive)
      surfaceData == OrDefault(SURFACE_MATERIALS, p.surface, "Steel")
      surfaceMultiplier == surfaceData.adhesionMultiplier
      envData == OrDefault(ENVIRONMENTAL_CONDITIONS, p.environment, "Dry")
      envMultiplier == envData.adhesionMultiplier
      standardThickness == adhesiveData.typicalThickness.standard
      thicknessFactor == Pow(Div(p.thickness, Whole(standardThickness)), Milli(300))
      lowEnergyPenalty == LowEnergyPenalty(surfaceData.surfaceEnergy, p.adhesive)
      finalAdhesion ==
        Mul(Mul(Mul(Mul(baseAdhesion, surfaceMultiplier), envMultiplier),
                thicknessFactor), lowEnergyPenalty)
  IN  finalAdhesion

UnflooredPeel(p) == AgedAdhesion(p, UnagedAdhesion(p))

\* The peel adhesion returned without its floor.
calculatePeelAdhesion_noFloor(p) == UnflooredPeel(p)

calculatePeelAdhesion(p) == Max(Milli(100), UnflooredPeel(p))

\* holdStrength, the value calculateHoldStrength has before its Math.max.
HoldFromPeel(p, peelStrength) ==
  LET shearMultipliers == [ Acrylic |-> Milli(2500), Rubber |-> Milli(2000), Silicone |-> Milli(3500) ]
      multiplier == NumberOr(shearMultipliers, p.adhesive, Milli(2500))
      adhesiveData == OrDefault(ADHESIVE_TYPES, p.adhesive, "Acrylic")
      standardThickness == adhesiveData.typicalThickness.standard
      thicknessFactor == Pow(Div(p.thickness, Whole(standardThickness)), Milli(400))
      holdStrength == Mul(Mul(peelStrength, multiplier), thicknessFactor)
  IN  holdStrength

UnflooredHold(p) == HoldFromPeel(p, calculatePeelAdhesion(p))

calculateHoldStrength(p) == Max(Milli(500), UnflooredHold(p))

\* finalStretch, the value calculateStretch has before its Math.max.
UnflooredStretch(p) ==
  LET backingData == OrDefault(BACKING_MATERIALS, p.tape, "PVC")
      baseStretch == Whole(backingData.elongation)
      adhesiveElasticity == [ Acrylic |-> Milli(1000), Rubber |-> Milli(1150), Silicone |-> Milli(950) ]
      adhesiveMultiplier == NumberOr(adhesiveElasticity, p.adhesive, Milli(1000))
      standardThickness == backingData.typicalThickness.standard
      thicknessFactor == Pow(Div(Whole(standardThickness), p.thickness), Milli(150))
      finalStretch == Mul(Mul(baseStretch, adhesiveMultiplier), thicknessFactor)
  IN  finalStretch

calculateStretch(p) == Max(Whole(1), UnflooredStretch(p))

\* An adhesive without an entry given Acrylic's tolerance.
HeatTolerance_acrylicDefault(adhesive) ==
  NumberOr([ Acrylic |-> Whole(100), Rubber |-> Whole(60), Silicone |-> Whole(260) ],
           adhesive, Whole(100))

\* maxTemp of calculateTemperatureEffect: heatTolerance[adhesive] || 80
HeatTolerance(adhesive) ==
  NumberOr([ Acrylic |-> Whole(100), Rubber |-> Whole(60), Silicone |-> Whole(260) ],
           adhesive, Whole(80))

calculateTemperatureEffect(temperature, adhesive) ==
  LET optimalMin == Whole(15)
      optimalMax == Whole(25)
      maxTemp == HeatTolerance(adhesive)
  IN  IF temperature >= optimalMin /\ temperature <= optimalMax THEN Scale
      ELSE IF temperature < optimalMin
        THEN Max(Milli(400), Scale - Mul(optimalMin - temperature, Milli(30)))
      ELSE IF temperature > optimalMax
        THEN Max(Milli(300),
                 Scale - Mul(Div(temperature - optimalMax, maxTemp - optimalMax), Milli(500)))
      ELSE Scale

\* The record returned has peel, hold (toFixed(2)), stretch (toFixed(1)) and
\* temperatureEffect (toFixed(3)) as the numbers their strings spell.
ReportProperties(p, peel, hold, stretch, aging) ==
  LET aged == TimeSpecified(p)
      agedPeel == IF aged THEN Mul(peel, aging.peelRetention) ELSE peel
      agedHold == IF aged THEN Mul(hold, aging.holdRetention) ELSE hold
      finalStretch == IF aged THEN Mul(stretch, aging.stretchChange) ELSE stretch
      envData == OrDefault(ENVIRONMENTAL_CONDITIONS, p.environment, "Dry")
      tempEffect == calculateTemperatureEffect(Whole(envData.temperature.typical), p.adhesive)
      finalPeel == Mul(agedPeel, tempEffect)
      finalHold == Mul(agedHold, tempEffect)
  IN  [ peel |-> ToFixed2(finalPeel),
        hold |-> ToFixed2(finalHold),
        stretch |-> ToFixed1(finalStretch),
        totalThickness |-> calculateTotalThickness(p.tape, p.adhesive),
        agingEffect |->
          IF p.timeImpactDays # Undefined /\ p.timeImpactDays > 0
            THEN Some(aging)
            ELSE Null,
        temperatureEffect |-> ToFixed3(tempEffect) ]

\* aging stands for calculateAgingEffects(params), which the code calls only
\* where timeImpactDays > 0.
calculateTapeProperties(p) ==
  ReportProperties(p, calculatePeelAdhesion(p), calculateHoldStrength(p),
                   calculateStretch(p), calculateAgingEffects(p))

\* The second copy of the module.  Its tables give every field the formulas
\* read the value of the first copy, and its functions are those of the
\* first copy but for calculatePeelAdhesion, which applies no aging.
SecondCopyPeelAdhesion(p) == Max(Milli(100), UnagedAdhesion(p))

SecondCopyHoldStrength(p) ==
  Max(Milli(500), HoldFromPeel(p, SecondCopyPeelAdhesion(p)))

SecondCopyTapeProperties(p) ==
  ReportProperties(p, SecondCopyPeelAdhesion(p), SecondCopyHoldStrength(p),
                   calculateStretch(p), calculateAgingEffects(p))

\* The two stretch values blended 60/40 as peel and hold are.
HarmonicStretch_weighted(stretch1, stretch2) ==
  Mul(stretch1, Milli(600)) + Mul(stretch2, Milli(400))

\* The two stretch values averaged.
HarmonicStretch_arithmetic(stretch1, stretch2) == (stretch1 + stretch2) \div 2

\* (2 * stretch1 * stretch2) / (stretch1 + stretch2) for two values that are
\* whole tenths (parseFloat of toFixed(1) strings): computed on the tenths,
\* exactly, the product of the two fixed-point values being out of range.
HarmonicStretch(stretch1, stretch2) ==
  LET n1 == stretch1 \div 100000
      n2 == stretch2 \div 100000
  IN  IF IsFinite(stretch1) /\ IsFinite(stretch2)
        THEN DivU(2 * n1 * n2, 10 * (n1 + n2))
        ELSE Div(Mul(Mul(Whole(2), stretch1), stretch2), Add(stretch1, stretch2))

StandardOrZero(table, key) ==
  IF key \in DOMAIN table THEN table[key].typicalThickness.standard ELSE 0

\* A layer given the whole configured thickness.
LayerParams_wholeThickness(p, tape) ==
  TapeParams(tape, p.surface, p.adhesive, p.environment, p.thickness, p.timeImpactDays)

\* The object calculateMixedTapeProperties passes to calculateTapeProperties
\* for one of its two backings.
LayerParams(p, tape) ==
  TapeParams(tape, p.surface, p.adhesive, p.environment, Div(p.thickness, Whole(2)),
             p.timeImpactDays)

\* The adhesive layer counted with the thickness that was configured.
MixedTotalThickness_configured(p) ==
  StandardOrZero(BACKING_MATERIALS, p.tape1) + StandardOrZero(BACKING_MATERIALS, p.tape2)
    + (p.thickness \div Scale)

\* totalThickness of calculateMixedTapeProperties; the standard thicknesses
\* are whole micrometres, which Math.round leaves as they are.
MixedTotalThickness(p) ==
  StandardOrZero(BACKING_MATERIALS, p.tape1) + StandardOrZero(BACKING_MATERIALS, p.tape2)
    + StandardOrZero(ADHESIVE_TYPES, p.adhesive)

\* The blend of what calculateTapeProperties reported for the two layers.
BlendLayers(p, props1, props2) ==
  LET avgPeel == Add(Mul(ParseFloat2(props1.peel), Milli(600)), Mul(ParseFloat2(props2.peel), Milli(400)))
      avgHold == Add(Mul(ParseFloat2(props1.hold), Milli(600)), Mul(ParseFloat2(props2.hold), Milli(400)))
      stretch1 == ParseFloat1(props1.stretch)
      stretch2 == ParseFloat1(props2.stretch)
      avgStretch == HarmonicStretch(stretch1, stretch2)
      totalThickness == MixedTotalThickness(p)
  IN  [ peel |-> ToFixed2(avgPeel),
        hold |-> ToFixed2(avgHold),
        stretch |-> ToFixed1(avgStretch),
        totalThickness |-> totalThickness,
        description |-> <<"Composite of", p.tape1, "and", p.tape2>> ]

calculateMixedTapeProperties(p) ==
  BlendLayers(p, calculateTapeProperties(LayerParams(p, p.tape1)),
              calculateTapeProperties(LayerParams(p, p.tape2)))

\* The assessment object calculateSurfaceDamageRisk returns (message and
\* surfaceRange left out).
Assessment(canDamage, safetyFactor, damageRisk, tapeForce, surfaceStrength) ==
  [ canDamage |-> canDamage, safetyFactor |-> safetyFactor, damageRisk |-> damageRisk,
    tapeForce |-> tapeForce, surfaceStrength |-> surfaceStrength ]

\* A surface without an entry taken to be as strong as carton.
RuptureData_orCarton(surface) ==
  IF surface \in DOMAIN SURFACE_RUPTURE_STRENGTH /\ SURFACE_RUPTURE_STRENGTH[surface] # Null
    THEN SURFACE_RUPTURE_STRENGTH[surface]
    ELSE Some(RuptureEntry(Whole(40), Whole(240), Whole(140)))

\* SURFACE_RUPTURE_STRENGTH[surface]: Null also for a key that is not there.
RuptureData(surface) ==
  IF surface \in DOMAIN SURFACE_RUPTURE_STRENGTH
    THEN SURFACE_RUPTURE_STRENGTH[surface]
    ELSE Null

\* The tiers with each threshold counted to the upper tier.
DamageTier_inclusive(safetyFactor) ==
  IF safetyFactor >= Whole(3) THEN "low"
  ELSE IF safetyFactor >= Milli(1500) THEN "moderate"
  ELSE IF safetyFactor >= Whole(1) THEN "high"
  ELSE "critical"

\* The tier of a safety factor.
DamageTier(safetyFactor) ==
  IF safetyFactor > Whole(3) THEN "low"
  ELSE IF safetyFactor > Milli(1500) THEN "moderate"
  ELSE IF safetyFactor > Whole(1) THEN "high"
  ELSE "critical"

\* The assessment with the force of the tape taken over the surface strength.
AssessSurface_inverted(surface, tapeForce) ==
  LET ruptureData == RuptureData(surface)
      surfaceStrength == ruptureData[1].typical
      safetyFactor == Div(tapeForce, surfaceStrength)
  IN  IF ruptureData = Null
        THEN Assessment(FALSE, Null, "none", tapeForce, Null)
        ELSE Assessment(TRUE, Some(safetyFactor), DamageTier(safetyFactor), tapeForce,
                        Some(surfaceStrength))

\* The assessment of a surface against the force of the tape.
AssessSurface(surface, tapeForce) ==
  LET ruptureData == RuptureData(surface)
      surfaceStrength == ruptureData[1].typical
      safetyFactor == Div(surfaceStrength, tapeForce)
  IN  IF ruptureData = Null
        THEN Assessment(FALSE, Null, "none", tapeForce, Null)
        ELSE Assessment(TRUE, Some(safetyFactor), DamageTier(safetyFactor), tapeForce,
                        Some(surfaceStrength))

\* width and height of the strip, 10 mm each where the caller gives none.
WidthOrDefault(p) == IF p.width = Undefined THEN Whole(10) ELSE p.width

HeightOrDefault(p) == IF p.height = Undefined THEN Whole(10) ELSE p.height

\* The force taken over the contact area of the strip.
TapeForce_overArea(holdStrength, width, height) ==
  LET contactArea == Mul(Div(width, Whole(10)), Div(height, Whole(10)))
  IN  Mul(holdStrength, contactArea)

\* The force per centimetre of width; the contact area is computed and not
\* used.
TapeForce(holdStrength, width, height) ==
  LET contactArea == Mul(Div(width, Whole(10)), Div(height, Whole(10)))
  IN  Mul(holdStrength, Div(width, Whole(10)))

calculateSurfaceDamageRisk(p) ==
  AssessSurface(p.surface,
                TapeForce(calculateHoldStrength(p), WidthOrDefault(p), HeightOrDefault(p)))

\* The default of the destructuring taken as one day.
DaysOrZero_defaultOne(p) == IF p.timeImpactDays = Undefined THEN 1 ELSE p.timeImpactDays

\* const { timeImpactDays = 0 } = params
DaysOrZero(p) == IF p.timeImpactDays = Undefined THEN 0 ELSE p.timeImpactDays

\* The intensity left as computed, without Math.min.
ClampToOne_absent(v) == v

\* Math.min(1.0, v)
ClampToOne(v) == Min(Scale, v)

\* The elapsed time normalised on the day within the year.
YellowingCurve_wrapped(timeImpactDays) ==
  LET timeFactorDays == Div(Whole(timeImpactDays % 366), Whole(366))
  IN  Milli(300) + Mul(Milli(700), Log10(Scale + Mul(timeFactorDays, Whole(9))))

\* 0.3 + 0.7 * Math.log10(1 + timeFactorDays * 9), timeFactorDays being
\* timeImpactDays / 366.
YellowingCurve(timeImpactDays) ==
  LET timeFactorDays == Div(Whole(timeImpactDays), Whole(366))
  IN  Add(Milli(300), Mul(Milli(700), Log10(Scale + Mul(timeFactorDays, Whole(9)))))

calculateUVDegradation(p) ==
  LET timeImpactDays == DaysOrZero(p)
      uvResistanceToRate ==
        [ excellent |-> Milli(50), good |-> Milli(150), fair |-> Milli(350), poor |-> Milli(650) ]
      backingRate == NumberOr(uvResistanceToRate, BACKING_MATERIALS[p.backing].uvResistance, Milli(300))
      adhesiveRate == NumberOr(uvResistanceToRate, ADHESIVE_TYPES[p.adhesive].uvResistance, Milli(300))
      envUVMultiplier ==
        [ Humid |-> Milli(900), Tropical |-> Milli(1500), Semiarid |-> Milli(1200),
          Arid |-> Milli(1400), Dry |-> Milli(1000) ]
      uvMultiplier == NumberOr(envUVMultiplier, p.environment, Milli(1000))
      combinedRate == Mul(Mul(backingRate, Milli(400)) + Mul(adhesiveRate, Milli(600)), uvMultiplier)
  IN  IF timeImpactDays = 0 THEN 0
      ELSE IF p.backing \notin DOMAIN BACKING_MATERIALS \/ p.adhesive \notin DOMAIN ADHESIVE_TYPES
        THEN 0
      ELSE ClampToOne(Mul(combinedRate, YellowingCurve(timeImpactDays)))

calculateAdhesiveResidue(p) ==
  LET timeImpactDays == DaysOrZero(p)
      envData == OrDefault(ENVIRONMENTAL_CONDITIONS, p.environment, "Dry")
      adhesiveResidueFactor == [ Acrylic |-> Milli(300), Rubber |-> Milli(800), Silicone |-> Milli(100) ]
      residueFactor == NumberOr(adhesiveResidueFactor, p.adhesive, Milli(400))
      surfaceAbsorptionFactor ==
        ( "Steel" :> Milli(100) ) @@ ( "Aluminum" :> Milli(100) ) @@ ( "Glass" :> Milli(50) ) @@
        ( "Textured Glass" :> Milli(300) ) @@ ( "Plastic Bag" :> Milli(200) ) @@
        ( "Door Veneer" :> Milli(700) ) @@ ( "Paper Note" :> Milli(900) ) @@
        ( "Manga Paper" :> Milli(900) ) @@ ( "Sketchbook Paper" :> Milli(850) ) @@
        ( "Rough Carton" :> Milli(800) ) @@ ( "Wall Paint" :> Milli(600) ) @@
        ( "Damaged Wall Paint" :> Milli(700) ) @@ ( "Photo" :> Milli(500) )
      absorptionFactor == NumberOr(surfaceAbsorptionFactor, p.surface, Milli(400))
      tempFactor == Max(Milli(500), Min(Whole(2), Div(Whole(envData.temperature.typical), Whole(20))))
      timeFactorDays == Sqrt(Div(Whole(timeImpactDays), Whole(366)))
  IN  IF timeImpactDays = 0 THEN 0
      ELSE IF p.adhesive \notin DOMAIN ADHESIVE_TYPES \/ p.surface \notin DOMAIN SURFACE_MATERIALS
        THEN 0
      ELSE ClampToOne(
               Mul(Mul(Mul(Mul(residueFactor, absorptionFactor), tempFactor), timeFactorDays),
                   Milli(1200)))

\* toFixed(0) and Math.round of a value that is not negative: the nearest
\* whole number.
ToFixed0(v) == IF IsFinite(v) THEN (v + 500000) \div Scale ELSE v

\* The two intensities added.
CombinedIntensity_additive(uvDegradation, adhesiveResidue) ==
  Min(Scale, Add(uvDegradation, adhesiveResidue))

\* The blend with the larger component at half its weight.
CombinedIntensity_halfMax(uvDegradation, adhesiveResidue) ==
  Min(Scale, Add(Mul(Max(uvDegradation, adhesiveResidue), Milli(500)),
                 Mul(Add(uvDegradation, adhesiveResidue), Milli(300))))

\* combinedIntensity of calculateTapeYellowTint.
CombinedIntensity(uvDegradation, adhesiveResidue) ==
  Min(Scale, Add(Mul(Max(uvDegradation, adhesiveResidue), Milli(700)),
                 Mul(Add(uvDegradation, adhesiveResidue), Milli(300))))

\* The tint record for the two intensities.  color is the rgba(...) string
\* by its four numbers r, g, b and alpha (alpha in thousandths), in the
\* order of the string; cssFilter is the filter string by
\* its four numbers (sepia, saturate and brightness in hundredths).
BlendTint(uvDegradation, adhesiveResidue) ==
  LET combinedIntensity == CombinedIntensity(uvDegradation, adhesiveResidue)
  IN  [ intensity |-> combinedIntensity,
        uvComponent |-> uvDegradation,
        residueComponent |-> adhesiveResidue,
        color |-> << 255,
                     ToFixed0(Sub(Whole(200), Mul(combinedIntensity, Whole(50)))),
                     0,
                     ToFixed3(Mul(combinedIntensity, Milli(600))) >>,
        cssFilter |-> [ sepia |-> ToFixed2(Mul(combinedIntensity, Milli(800))),
                        saturate |-> ToFixed2(Add(Scale, Mul(combinedIntensity, Whole(2)))),
                        hueRotate |-> ToFixed0(Mul(combinedIntensity, Whole(15))),
                        brightness |-> ToFixed2(Sub(Scale, Mul(combinedIntensity, Milli(200)))) ] ]

calculateTapeYellowTint(p) ==
  BlendTint(calculateUVDegradation(p), calculateAdhesiveResidue(p))

\* What a lookup gives: kind is "record" with the record in value, or
\* "undefined" or "null" with nothing in value.
Looked(kind, value) == [ kind |-> kind, value |-> value ]

\* table[key]: undefined for a key the table does not have.
TableEntry(table, key) ==
  IF key \in DOMAIN table
    THEN Looked("record", Some(table[key]))
    ELSE Looked("undefined", Null)

getMaterialInfo(materialType, materialName) ==
  CASE materialType = "backing" -> TableEntry(BACKING_MATERIALS, materialName)
    [] materialType = "adhesive" -> TableEntry(ADHESIVE_TYPES, materialName)
    [] materialType = "surface" -> TableEntry(SURFACE_MATERIALS, materialName)
    [] materialType = "environment" -> TableEntry(ENVIRONMENTAL_CONDITIONS, materialName)
    [] OTHER -> Looked("null", Null)

\* ------------------------------------------------------------------------
\* Inputs
\* ------------------------------------------------------------------------

\* Keys of each table, and one key that is not in the table.
BackingKeys == {"PVC", "PET", "BOPP", "Paper", "Foam", "Vinyl"}

AdhesiveKeys == DOMAIN ADHESIVE_TYPES \cup {"Hotmelt"}

SurfaceKeys == {"Steel", "Glass", "Plastic Bag", "Damaged Wall Paint", "Photo", "Concrete"}

EnvironmentKeys == {"Dry", "Humid", "Tropical", "Arid", "Polar"}

\* Adhesive thickness in micrometres: ThicknessStep, 2 * ThicknessStep, ...
ThicknessStep == 25

MaxThicknessSteps == 3

Thicknesses == { Whole(ThicknessStep * k) : k \in 1..MaxThicknessSteps }

\* Elapsed days: 0, 1 and multiples of DayStep (up to and beyond 366).
DayStep == 183

MaxDaySteps == 3

ElapsedDays == {0, 1} \cup { DayStep * k : k \in 1..MaxDaySteps }

\* timeImpactDays as a caller gives it: absent, or a number of days.
TimeInputs == {Undefined} \cup ElapsedDays

\* A configuration is valid when its keys are in the tables, its thickness is
\* positive and its elapsed time is absent or within 0..366.
ValidConfig(p) ==
  /\ p.tape \in DOMAIN BACKING_MATERIALS
  /\ p.surface \in DOMAIN SURFACE_MATERIALS
  /\ p.adhesive \in DOMAIN ADHESIVE_TYPES
  /\ p.environment \in DOMAIN ENVIRONMENTAL_CONDITIONS
  /\ p.thickness > 0
  /\ (p.timeImpactDays = Undefined \/ p.timeImpactDays \in 0..366)

\* ------------------------------------------------------------------------
\* Module load and calls
\* ------------------------------------------------------------------------

\* The five table objects as the module's const declarations build them.
ReferenceTables ==
  [ BACKING_MATERIALS |-> BACKING_MATERIALS,
    ADHESIVE_TYPES |-> ADHESIVE_TYPES,
    SURFACE_MATERIALS |-> SURFACE_MATERIALS,
    SURFACE_RUPTURE_STRENGTH |-> SURFACE_RUPTURE_STRENGTH,
    ENVIRONMENTAL_CONDITIONS |-> ENVIRONMENTAL_CONDITIONS ]

\* After the module is loaded: the tables as declared, nothing reported.
\* The calculations run without a page: no container, no window.
Loaded ==
  /\ tables = ReferenceTables
  /\ reported = {}
  /\ container = Null
  /\ window = Null

\* The records calculateTapeProperties returned for one configuration, in
\* the order of the calls (the first MaxRepeats of them).
Report(input, outputs) == [ input |-> input, outputs |-> outputs ]

MaxRepeats == 2

Recorded(log, input, output) ==
  IF \E r \in log : r.input = input
    THEN { IF r.input = input /\ Len(r.outputs) < MaxRepeats
             THEN Report(input, Append(r.outputs, output))
             ELSE r : r \in log }
    ELSE log \cup {Report(input, <<output>>)}

\* A call of calculatePeelAdhesion that normalises Rubber's value in the
\* table itself.
Call_normalisingInPlace(name, value) ==
  /\ op = "none"
  /\ op' = name
  /\ result' = value
  /\ reported' = IF name = "calculateTapeProperties"
                   THEN Recorded(reported, params, value)
                   ELSE reported
  /\ tables' = IF name = "calculatePeelAdhesion"
                 THEN [tables EXCEPT !.ADHESIVE_TYPES.Rubber.peelAdhesion = @ \div 10]
                 ELSE tables
  /\ UNCHANGED <<params, container, window>>

\* A call of an exported function on the arguments in hand.  No function of
\* the module assigns to a table or to a property of its argument.
Call(name, value) ==
  /\ op = "none"
  /\ op' = name
  /\ result' = value
  /\ reported' = IF name = "calculateTapeProperties"
                   THEN Recorded(reported, params, value)
                   ELSE reported
  /\ UNCHANGED <<params, tables, container, window>>

\* --- the single-tape pipeline ---

Init ==
  /\ op = "none"
  /\ result = Null
  /\ Loaded
  /\ \E b \in BackingKeys, s \in SurfaceKeys, a \in AdhesiveKeys, e \in EnvironmentKeys,
        t \in Thicknesses, d \in TimeInputs :
       params = TapeParams(b, s, a, e, t, d)

PeelAdhesion == Call("calculatePeelAdhesion", calculatePeelAdhesion(params))

HoldStrength == Call("calculateHoldStrength", calculateHoldStrength(params))

Stretch == Call("calculateStretch", calculateStretch(params))

\* Called by the code only with a number of days.
AgingEffects ==
  /\ params.timeImpactDays # Undefined
  /\ Call("calculateAgingEffects", calculateAgingEffects(params))

TapeProperties == Call("calculateTapeProperties", calculateTapeProperties(params))

Next ==
  \/ PeelAdhesion
  \/ HoldStrength
  \/ Stretch
  \/ AgingEffects
  \/ TapeProperties

Spec == Init /\ [][Next]_vars

\* ------------------------------------------------------------------------
\* Properties of the single-tape pipeline (checked under Spec)
\* ------------------------------------------------------------------------

\* C1: for every valid configuration the values calculateTapeProperties
\* reports satisfy peel >= 0.1, hold >= 0.5 and stretch >= 1 (peel and hold
\* are reported in hundredths, stretch in tenths).
C1_ReportedValuesFloored ==
  (op = "calculateTapeProperties" /\ ValidConfig(params))
    => (result.peel >= 10 /\ result.hold >= 50 /\ result.stretch >= 10)

\* C2: calculatePeelAdhesion returns at least 0.1, calculateHoldStrength at
\* least 0.5 and calculateStretch at least 1, for every configuration with a
\* positive thickness, aged or not.
C2_FormulasFloored ==
  /\ op = "calculatePeelAdhesion" => result >= Milli(100)
  /\ op = "calculateHoldStrength" => result >= Milli(500)
  /\ op = "calculateStretch" => result >= Whole(1)

\* A call of calculatePeelAdhesion on an aged tape whose product of factors
\* is below the floor, so that the floor is what is returned.
C2_FloorActive ==
  /\ op = "calculatePeelAdhesion"
  /\ TimeSpecified(params)
  /\ UnflooredPeel(params) < Milli(100)
  /\ result = Milli(100)

\* C3: calculateTapeProperties with timeImpactDays = 0 returns the record it
\* returns with timeImpactDays absent, and agingEffect is null.
C3_ZeroDaysAsOmitted ==
  (op = "calculateTapeProperties" /\ params.timeImpactDays = 0)
    => /\ result = calculateTapeProperties([params EXCEPT !.timeImpactDays = Undefined])
       /\ result.agingEffect = Null

\* A call of calculateTapeProperties with timeImpactDays = 0 on a valid
\* configuration.
C3_ZeroDaysCall ==
  /\ op = "calculateTapeProperties"
  /\ params.timeImpactDays = 0
  /\ ValidConfig(params)

\* ------------------------------------------------------------------------
\* Discoloration of a tape that is left in place: the yellowing and the
\* residue are evaluated on a configuration, and again day after day.
\* ------------------------------------------------------------------------

TintBackings == {"PVC", "PET", "Kapton"}

TintSurfaces == {"Steel", "Paper Note", "Concrete"}

TintEnvironments == {"Tropical", "Humid", "Polar"}

\* The last day the tape is followed to, past the 366 days of the slider.
MaxTintDays == 400

\* A tape found after four years.
LateDay == 1464

TintStartTimes == {Undefined, 0, LateDay}

InitTint ==
  /\ op = "none"
  /\ result = Null
  /\ Loaded
  /\ \E b \in TintBackings, s \in TintSurfaces, a \in AdhesiveKeys, e \in TintEnvironments,
        d \in TintStartTimes :
       params = [TapeParams(b, s, a, e, Whole(ThicknessStep), d) EXCEPT !.backing = b]

\* The configuration one day later.
Aged(p) == [p EXCEPT !.timeImpactDays = DaysOrZero(p) + 1]

\* The first call is on the configuration in hand, each later one on that
\* configuration a day older.
TintParams(name) ==
  \/ op = "none" /\ params' = params
  \/ op = name /\ DaysOrZero(params) < MaxTintDays /\ params' = Aged(params)

UVDegradation ==
  /\ TintParams("calculateUVDegradation")
  /\ op' = "calculateUVDegradation"
  /\ result' = calculateUVDegradation(params')
  /\ UNCHANGED <<tables, reported, container, window>>

AdhesiveResidue ==
  /\ TintParams("calculateAdhesiveResidue")
  /\ op' = "calculateAdhesiveResidue"
  /\ result' = calculateAdhesiveResidue(params')
  /\ UNCHANGED <<tables, reported, container, window>>

\* calculateTapeYellowTint on the configuration in hand, then on that
\* configuration a day older, and so on.
YellowTintDayAfterDay ==
  /\ TintParams("calculateTapeYellowTint")
  /\ op' = "calculateTapeYellowTint"
  /\ result' = calculateTapeYellowTint(params')
  /\ UNCHANGED <<tables, reported, container, window>>

NextTint ==
  \/ UVDegradation
  \/ AdhesiveResidue
  \/ YellowTintDayAfterDay

SpecTint == InitTint /\ [][NextTint]_vars

TintOps == {"calculateUVDegradation", "calculateAdhesiveResidue"}

\* The keys the two intensities look up are in their tables.
TintKeysKnown(p) ==
  /\ p.backing \in DOMAIN BACKING_MATERIALS
  /\ p.adhesive \in DOMAIN ADHESIVE_TYPES
  /\ p.surface \in DOMAIN SURFACE_MATERIALS

\* C4: calculateUVDegradation and calculateAdhesiveResidue return exactly 0
\* when timeImpactDays is 0 or absent, whatever the keys.
C4_ZeroAtDayZero ==
  (op \in TintOps /\ (params.timeImpactDays = Undefined \/ params.timeImpactDays = 0))
    => result = 0

\* A call of calculateUVDegradation without timeImpactDays, on keys that are
\* all in the tables.
C4_AbsentDaysCall ==
  /\ op = "calculateUVDegradation"
  /\ params.timeImpactDays = Undefined
  /\ TintKeysKnown(params)
  /\ result = 0

\* C5: with the keys fixed, the yellowing and the residue do not decrease
\* from one day to the next over 0..366, the step from day 0 to day 1
\* included.
C5_NonDecreasingInDays ==
  [][(op \in TintOps /\ op' = op /\ params'.timeImpactDays \in 1..366)
       => result' >= result]_vars

\* The yellowing of a tape followed from day 0 to day 366, neither zero nor at
\* the cap.
C5_FollowedForAYear ==
  /\ op = "calculateUVDegradation"
  /\ params.timeImpactDays = 366
  /\ result > 0
  /\ result < Scale

\* C6: for every timeImpactDays >= 0, also beyond 366, the yellowing and the
\* residue lie in [0, 1].
C6_IntensityInUnitInterval ==
  op \in TintOps => (result >= 0 /\ result <= Scale)

\* A residue past day 366 that the cap holds at 1.
C6_CappedBeyondAYear ==
  /\ op = "calculateAdhesiveResidue"
  /\ params.timeImpactDays > 366
  /\ result = Scale

\* ------------------------------------------------------------------------
\* Damage risk of a strip of tape on a surface
\* ------------------------------------------------------------------------

\* Every surface of the rupture table, and one that is not in it.
RiskSurfaces == DOMAIN SURFACE_RUPTURE_STRENGTH \cup {"Concrete"}

RiskEnvironments == {"Dry", "Tropical", "Polar"}

\* Width of the strip in millimetres: WidthStep, 2 * WidthStep, ...
WidthStep == 35

MaxWidthSteps == 3

\* width and height as a caller gives them: absent, or millimetres.
RiskWidths == {Undefined} \cup { Whole(WidthStep * k) : k \in 1..MaxWidthSteps }

RiskHeights == {Undefined, Whole(WidthStep)}

RiskTimes == {Undefined, 0, 2 * DayStep}

InitRisk ==
  /\ op = "none"
  /\ result = Null
  /\ Loaded
  /\ \E s \in RiskSurfaces, a \in AdhesiveKeys, e \in RiskEnvironments, t \in Thicknesses,
        d \in RiskTimes, w \in RiskWidths, h \in RiskHeights :
       params = [TapeParams("PVC", s, a, e, t, d) EXCEPT !.width = w, !.height = h]

SurfaceDamageRisk ==
  Call("calculateSurfaceDamageRisk", calculateSurfaceDamageRisk(params))

NextRisk ==
  \/ SurfaceDamageRisk
  \/ HoldStrength

SpecRisk == InitRisk /\ [][NextRisk]_vars

\* The surfaces the rupture table lists without a strength.
StrongSurfaces == {"Steel", "Aluminum", "Glass", "Textured Glass", "Plastic Bag"}

\* C7: on a surface without a rupture entry calculateSurfaceDamageRisk
\* returns canDamage = false and damageRisk = 'none', whatever the width,
\* height, adhesive, environment, thickness and elapsed time.
C7_StrongSurfaceNeverDamaged ==
  (op = "calculateSurfaceDamageRisk"
     /\ (params.surface \in StrongSurfaces \/ params.surface \notin DOMAIN SURFACE_RUPTURE_STRENGTH))
    => (result.canDamage = FALSE /\ result.damageRisk = "none")

\* An assessment of a wide strip of fresh tape on glass: the force is well
\* above what tears paper, and the surface is still not at risk.
C7_WideStripOnGlass ==
  /\ op = "calculateSurfaceDamageRisk"
  /\ params.surface = "Glass"
  /\ params.width = Whole(WidthStep * MaxWidthSteps)
  /\ result.tapeForce > Whole(4)
  /\ result.canDamage = FALSE

\* C8: on a surface with a rupture entry the safety factor is the typical
\* rupture strength over the tape force and the tier follows the thresholds:
\* above 3 low, in (1.5, 3] moderate, in (1, 1.5] high, at most 1 critical.
C8_TierByThresholds ==
  (op = "calculateSurfaceDamageRisk" /\ result.canDamage)
    => LET typical == SURFACE_RUPTURE_STRENGTH[params.surface][1].typical
           factor == result.safetyFactor[1]
       IN  /\ result.surfaceStrength = Some(typical)
           /\ factor = Div(typical, result.tapeForce)
           /\ result.damageRisk \in {"low", "moderate", "high", "critical"}
           /\ (result.damageRisk = "low") = (factor > Whole(3))
           /\ (result.damageRisk = "moderate") = (factor > Milli(1500) /\ factor <= Whole(3))
           /\ (result.damageRisk = "high") = (factor > Whole(1) /\ factor <= Milli(1500))
           /\ (result.damageRisk = "critical") = (factor <= Whole(1))

\* An assessment whose safety factor is exactly 3.0, classified moderate.
C8_ExactlyThree ==
  /\ op = "calculateSurfaceDamageRisk"
  /\ result.canDamage
  /\ result.safetyFactor = Some(Whole(3))
  /\ result.damageRisk = "moderate"

\* ------------------------------------------------------------------------
\* Composite tape of two backings
\* ------------------------------------------------------------------------

\* Backings of a composite, one of them not in the table.
CompositeBackings == {"PVC", "Paper", "Foam", "Kapton"}

CompositeSurfaces == {"Steel", "Photo"}

CompositeEnvironments == {"Tropical", "Polar"}

CompositeTimes == {Undefined, 0, DayStep}

InitComposite ==
  /\ op = "none"
  /\ result = Null
  /\ Loaded
  /\ \E b1 \in CompositeBackings, b2 \in CompositeBackings, s \in CompositeSurfaces,
        a \in AdhesiveKeys, e \in CompositeEnvironments, t \in Thicknesses,
        d \in CompositeTimes :
       params = [TapeParams("undefined", s, a, e, t, d) EXCEPT !.tape1 = b1, !.tape2 = b2]

MixedTapeProperties ==
  Call("calculateMixedTapeProperties", calculateMixedTapeProperties(params))

NextComposite ==
  \/ MixedTapeProperties
  \/ TapeProperties

SpecComposite == InitComposite /\ [][NextComposite]_vars

\* What calculateTapeProperties reports for a tape of one backing with half
\* the thickness of configuration p.
SingleLayer(p, tape) ==
  calculateTapeProperties(
    TapeParams(tape, p.surface, p.adhesive, p.environment, p.thickness \div 2, p.timeImpactDays))

\* n is the quotient num / den rounded to a whole number (den > 0).
RoundedQuotient(n, num, den) ==
  /\ 2 * (n * den - num) <= den
  /\ 2 * (num - n * den) <= den

CompositeKeysKnown(p) ==
  /\ p.tape1 \in DOMAIN BACKING_MATERIALS
  /\ p.tape2 \in DOMAIN BACKING_MATERIALS
  /\ p.surface \in DOMAIN SURFACE_MATERIALS
  /\ p.adhesive \in DOMAIN ADHESIVE_TYPES
  /\ p.environment \in DOMAIN ENVIRONMENTAL_CONDITIONS

\* C9: the stretch of a composite is the harmonic mean 2*s1*s2/(s1+s2) of the
\* stretch reported for each backing (in tenths, rounded to a tenth), it lies
\* between the two, s1 + s2 is not 0, and 25 and 8 give 12.1.
C9_StretchIsHarmonicMean ==
  /\ ToFixed1(HarmonicStretch(Whole(25), Whole(8))) = 121
  /\ op = "calculateMixedTapeProperties"
       => LET s1 == SingleLayer(params, params.tape1).stretch
              s2 == SingleLayer(params, params.tape2).stretch
          IN  /\ s1 + s2 > 0
              /\ RoundedQuotient(result.stretch, 2 * s1 * s2, s1 + s2)
              /\ result.stretch >= Min(s1, s2)
              /\ result.stretch <= Max(s1, s2)

\* A composite of two backings whose stretch differs, the composite's stretch
\* strictly between the two and below their arithmetic mean.
C9_UnequalLayers ==
  /\ op = "calculateMixedTapeProperties"
  /\ CompositeKeysKnown(params)
  /\ LET s1 == SingleLayer(params, params.tape1).stretch
         s2 == SingleLayer(params, params.tape2).stretch
     IN  /\ result.stretch > Min(s1, s2)
         /\ result.stretch < Max(s1, s2)
         /\ 2 * result.stretch < s1 + s2

\* C10: the composite's peel is 0.6 * peel1 + 0.4 * peel2 and its hold
\* 0.6 * hold1 + 0.4 * hold2 (in hundredths, rounded to a hundredth), peel1
\* and hold1 being reported for tape1 and peel2 and hold2 for tape2 with half
\* the configured thickness and the same surface, adhesive, environment and
\* elapsed time.
C10_PeelAndHoldWeighted ==
  op = "calculateMixedTapeProperties"
    => LET props1 == SingleLayer(params, params.tape1)
           props2 == SingleLayer(params, params.tape2)
       IN  /\ RoundedQuotient(result.peel, 6 * props1.peel + 4 * props2.peel, 10)
           /\ RoundedQuotient(result.hold, 6 * props1.hold + 4 * props2.hold, 10)

\* A composite of two different backings on an aged configuration whose
\* peel and hold are above what the floors give.
C10_TwoBackings ==
  /\ op = "calculateMixedTapeProperties"
  /\ CompositeKeysKnown(params)
  /\ params.tape1 # params.tape2
  /\ TimeSpecified(params)
  /\ result.peel > 10
  /\ result.hold > 50

\* C11: the totalThickness of a composite is the standard thickness of
\* backing tape1 plus that of backing tape2 plus that of the adhesive,
\* whatever thickness is configured.
C11_TotalThicknessOfStandards ==
  (op = "calculateMixedTapeProperties" /\ CompositeKeysKnown(params))
    => result.totalThickness =
         BACKING_MATERIALS[params.tape1].typicalThickness.standard
           + BACKING_MATERIALS[params.tape2].typicalThickness.standard
           + ADHESIVE_TYPES[params.adhesive].typicalThickness.standard

\* A composite of two different backings whose configured thickness is not
\* the adhesive's standard thickness.
C11_OtherThicknessConfigured ==
  /\ op = "calculateMixedTapeProperties"
  /\ CompositeKeysKnown(params)
  /\ params.tape1 # params.tape2
  /\ params.thickness # Whole(ADHESIVE_TYPES[params.adhesive].typicalThickness.standard)

\* ------------------------------------------------------------------------
\* Further properties of the single-tape pipeline (under Spec)
\* ------------------------------------------------------------------------

\* The catalog reference: Acrylic on BOPP, on steel, dry, with the adhesive's
\* standard thickness of 25 micrometres and no elapsed time.
ReferenceAnchor(p) ==
  /\ p.tape = "BOPP"
  /\ p.surface = "Steel"
  /\ p.adhesive = "Acrylic"
  /\ p.environment = "Dry"
  /\ p.thickness = Whole(25)
  /\ p.timeImpactDays = Undefined

\* C12: on the reference anchor the surface multiplier, the environment
\* multiplier, the thickness factor, the low-energy penalty and the
\* temperature effect are all 1, calculatePeelAdhesion returns 2.6 and
\* calculateTapeProperties reports peel 2.60.
C12_ReferenceAnchor ==
  /\ (op \in {"calculatePeelAdhesion", "calculateTapeProperties"} /\ ReferenceAnchor(params))
       => /\ SURFACE_MATERIALS[params.surface].adhesionMultiplier = Scale
          /\ ENVIRONMENTAL_CONDITIONS[params.environment].adhesionMultiplier = Scale
          /\ Pow(Div(params.thickness,
                     Whole(ADHESIVE_TYPES[params.adhesive].typicalThickness.standard)),
                 Milli(300)) = Scale
          /\ LowEnergyPenalty(SURFACE_MATERIALS[params.surface].surfaceEnergy, params.adhesive) = Scale
  /\ (op = "calculatePeelAdhesion" /\ ReferenceAnchor(params)) => result = Milli(2600)
  /\ (op = "calculateTapeProperties" /\ ReferenceAnchor(params))
       => (result.peel = 260 /\ result.temperatureEffect = 1000)

\* calculateTapeProperties called on the reference anchor.
C12_AnchorReported ==
  /\ op = "calculateTapeProperties"
  /\ ReferenceAnchor(params)
  /\ result.agingEffect = Null

\* The key itself when the table has it, the documented fallback otherwise.
KeyOr(table, key, fallback) == IF key \in DOMAIN table THEN key ELSE fallback

\* The configuration with every key that is not in its table replaced by the
\* documented fallback: PVC, Steel, Acrylic, Dry.
WithFallbackKeys(p) ==
  [p EXCEPT !.tape = KeyOr(BACKING_MATERIALS, @, "PVC"),
            !.surface = KeyOr(SURFACE_MATERIALS, @, "Steel"),
            !.adhesive = KeyOr(ADHESIVE_TYPES, @, "Acrylic"),
            !.environment = KeyOr(ENVIRONMENTAL_CONDITIONS, @, "Dry")]

\* C13: a key that is not in its table gives the result the fallback key
\* gives in its place (PVC for the backing, Steel for the surface, Acrylic
\* for the adhesive, Dry for the environment), in every formula of the
\* single-tape pipeline.
C13_UnknownKeyAsFallbackKey ==
  /\ op = "calculatePeelAdhesion" => result = calculatePeelAdhesion(WithFallbackKeys(params))
  /\ op = "calculateHoldStrength" => result = calculateHoldStrength(WithFallbackKeys(params))
  /\ op = "calculateStretch" => result = calculateStretch(WithFallbackKeys(params))
  /\ op = "calculateAgingEffects" => result = calculateAgingEffects(WithFallbackKeys(params))
  /\ op = "calculateTapeProperties" => result = calculateTapeProperties(WithFallbackKeys(params))

\* ------------------------------------------------------------------------
\* Lookup of a material for display
\* ------------------------------------------------------------------------

\* The arguments of getMaterialInfo.
LookupArgs(materialType, materialName) ==
  [ materialType |-> materialType, materialName |-> materialName ]

\* The four categories, and one that is none of them.
MaterialTypes == {"backing", "adhesive", "surface", "environment", "primer"}

\* Every key of every table, and names that no table has.
MaterialNames ==
  DOMAIN BACKING_MATERIALS \cup DOMAIN ADHESIVE_TYPES \cup DOMAIN SURFACE_MATERIALS
    \cup DOMAIN ENVIRONMENTAL_CONDITIONS \cup {"Vinyl", "Hotmelt", "Concrete", "Polar"}

InitLookup ==
  /\ op = "none"
  /\ result = Null
  /\ Loaded
  /\ \E materialType \in MaterialTypes, materialName \in MaterialNames :
       params = LookupArgs(materialType, materialName)

MaterialInfo ==
  Call("getMaterialInfo", getMaterialInfo(params.materialType, params.materialName))

NextLookup == MaterialInfo

SpecLookup == InitLookup /\ [][NextLookup]_vars

Categories == {"backing", "adhesive", "surface", "environment"}

\* The table of a category.
CategoryTable(materialType) ==
  CASE materialType = "backing" -> BACKING_MATERIALS
    [] materialType = "adhesive" -> ADHESIVE_TYPES
    [] materialType = "surface" -> SURFACE_MATERIALS
    [] materialType = "environment" -> ENVIRONMENTAL_CONDITIONS

\* The documented default key of a category.
CategoryDefault(materialType) ==
  CASE materialType = "backing" -> "PVC"
    [] materialType = "adhesive" -> "Acrylic"
    [] materialType = "surface" -> "Steel"
    [] materialType = "environment" -> "Dry"

\* C14: for each of the four categories getMaterialInfo returns the table's
\* record when the key is present and the category's default record when it
\* is absent, never undefined.
C14_LookupRecordOrDefault ==
  (op = "getMaterialInfo" /\ params.materialType \in Categories)
    => LET table == CategoryTable(params.materialType)
           key == KeyOr(table, params.materialName, CategoryDefault(params.materialType))
       IN  /\ result.kind = "record"
           /\ result.value = Some(table[key])

\* ------------------------------------------------------------------------
\* Temperature effect over a range of temperatures
\* ------------------------------------------------------------------------

\* The arguments of calculateTemperatureEffect.
TemperatureArgs(adhesive, temperature) ==
  [ adhesive |-> adhesive, temperature |-> temperature ]

\* Temperatures in steps of TemperatureStep thousandths of a degree, from
\* MaxColdSteps steps below zero to MaxHotSteps steps above.
TemperatureStep == 500

MaxColdSteps == 120

MaxHotSteps == 600

Temperatures == { Milli(TemperatureStep * k) : k \in (0 - MaxColdSteps)..MaxHotSteps }

InitTemperature ==
  /\ op = "none"
  /\ result = Null
  /\ Loaded
  /\ \E a \in AdhesiveKeys, t \in Temperatures : params = TemperatureArgs(a, t)

TemperatureEffect ==
  Call("calculateTemperatureEffect",
       calculateTemperatureEffect(params.temperature, params.adhesive))

NextTemperature == TemperatureEffect

SpecTemperature == InitTemperature /\ [][NextTemperature]_vars

\* Degrees between 25 and the heat ceiling of an adhesive: 100 for Acrylic,
\* 60 for Rubber, 260 for Silicone, 80 for any other key.
DegreesToCeiling(adhesive) ==
  CASE adhesive = "Acrylic" -> 75
    [] adhesive = "Rubber" -> 35
    [] adhesive = "Silicone" -> 235
    [] OTHER -> 55

SessionConfigs ==
  { [TapeParams("PVC", "Plastic Bag", a, "Tropical", Whole(ThicknessStep), d)
       EXCEPT !.tape1 = "PVC", !.tape2 = "Paper", !.backing = "PVC",
              !.width = Whole(WidthStep)] :
      a \in {"Acrylic", "Rubber"}, d \in {Undefined, DayStep} }

SessionLookups == {LookupArgs("adhesive", "Rubber"), LookupArgs("primer", "Vinyl")}

SessionTemperatures == {TemperatureArgs("Rubber", Whole(40))}

SessionInputs == SessionConfigs \cup SessionLookups \cup SessionTemperatures

InitSession ==
  /\ op = "none"
  /\ result = Null
  /\ Loaded
  /\ params \in SessionInputs

\* The caller takes the result and prepares the arguments of the next call.
NextInput ==
  /\ op # "none"
  /\ op' = "none"
  /\ result' = Null
  /\ params' \in SessionInputs
  /\ UNCHANGED <<tables, reported, container, window>>

TapeYellowTint == Call("calculateTapeYellowTint", calculateTapeYellowTint(params))

\* The arguments in hand are a configuration / a lookup / a temperature, and
\* no call has been made on them yet.
OnConfig == op = "none" /\ "tape" \in DOMAIN params

OnLookup == op = "none" /\ "materialType" \in DOMAIN params

OnTemperature == op = "none" /\ "temperature" \in DOMAIN params

NextSession ==
  \/ NextInput
  \/ OnConfig /\ PeelAdhesion
  \/ OnConfig /\ HoldStrength
  \/ OnConfig /\ Stretch
  \/ OnConfig /\ AgingEffects
  \/ OnTemperature /\ TemperatureEffect
  \/ OnConfig /\ TapeProperties
  \/ OnConfig /\ MixedTapeProperties
  \/ OnConfig /\ SurfaceDamageRisk
  \/ OnConfig /\ UVDegradation
  \/ OnConfig /\ AdhesiveResidue
  \/ OnConfig /\ TapeYellowTint
  \/ OnLookup /\ MaterialInfo

SpecSession == InitSession /\ [][NextSession]_vars

C18_TablesAndArgumentsKept ==
  /\ [](tables = ReferenceTables)
  /\ [][op' # "none" => params' = params]_vars

\* A composite call made after calculateTapeProperties was called on every
\* configuration of the session: the fifth call at least.
C18_AfterManyCalls ==
  /\ op = "calculateMixedTapeProperties"
  /\ { r.input : r \in reported } = SessionConfigs
  /\ tables = ReferenceTables

\* ------------------------------------------------------------------------
\* Peel adhesion at the adhesive's standard thickness (checked under Spec)
\* ------------------------------------------------------------------------

\* The adhesive's table value in N/cm: Rubber's divided by 10, any other
\* adhesive's by 100 (an adhesive without an entry has Acrylic's value).
NormalisedBase(adhesive) ==
  LET value == IF adhesive \in DOMAIN ADHESIVE_TYPES
                 THEN ADHESIVE_TYPES[adhesive].peelAdhesion
                 ELSE ADHESIVE_TYPES["Acrylic"].peelAdhesion
  IN  IF adhesive = "Rubber" THEN Whole(value) \div 10 ELSE Whole(value) \div 100

\* 0.5 for Acrylic on a low-energy surface, 0.8 for Rubber on one, else 1.
PenaltyFor(surfaceEnergy, adhesive) ==
  IF surfaceEnergy = "low" /\ adhesive = "Acrylic" THEN Milli(500)
  ELSE IF surfaceEnergy = "low" /\ adhesive = "Rubber" THEN Milli(800)
  ELSE Scale

\* The thickness is the standard thickness of the adhesive and no time has
\* elapsed.
StandardAndFresh(p) ==
  /\ p.thickness = Whole(OrDefault(ADHESIVE_TYPES, p.adhesive, "Acrylic").typicalThickness.standard)
  /\ (p.timeImpactDays = Undefined \/ p.timeImpactDays = 0)

AgingStartTimes == {0, LateDay}

InitAging ==
  /\ op = "none"
  /\ result = Null
  /\ Loaded
  /\ \E a \in AdhesiveKeys, e \in EnvironmentKeys, d \in AgingStartTimes :
       params = TapeParams("PVC", "Steel", a, e, Whole(ThicknessStep), d)

\* calculateAgingEffects on the configuration in hand, then on that
\* configuration a day older, and so on.
AgingDayAfterDay ==
  /\ TintParams("calculateAgingEffects")
  /\ op' = "calculateAgingEffects"
  /\ result' = calculateAgingEffects(params')
  /\ UNCHANGED <<tables, reported, container, window>>

NextAging == AgingDayAfterDay

SpecAging == InitAging /\ [][NextAging]_vars

\* The retentions and the stretch change returned for a number of days.
AgingWithin(aging, timeImpactDays) ==
  LET r == aging.peelRetention
  IN  /\ r >= 0 /\ r <= Scale
      /\ aging.holdRetention * 100 - r * 95 <= 100
      /\ r * 95 - aging.holdRetention * 100 <= 100
      /\ (aging.stretchChange - Scale) * 10 - 3 * (Scale - r) <= 10
      /\ 3 * (Scale - r) - (aging.stretchChange - Scale) * 10 <= 10
      /\ aging.stretchChange >= Scale /\ aging.stretchChange <= Milli(1300)
      /\ timeImpactDays = 0
           => (r = Scale /\ aging.holdRetention = Milli(950) /\ aging.stretchChange = Scale)
      /\ timeImpactDays <= 366 => (r > 0 /\ aging.stretchChange < Milli(1300))

\* C20 (as it holds): calculateAgingEffects returns
\* holdRetention = 0.95 * peelRetention and
\* stretchChange = 1 + 0.3 * (1 - peelRetention) (to the last digit kept),
\* peelRetention is at most 1, is 1 at day 0 and does not increase from one
\* day to the next; up to 366 days peelRetention is above 0 and stretchChange
\* below 1.3, and for any number of days stretchChange is in [1, 1.3].
C20_AgingRelations ==
  /\ [](op = "calculateAgingEffects" => AgingWithin(result, params.timeImpactDays))
  /\ [][(op = "calculateAgingEffects" /\ op' = "calculateAgingEffects")
          => result'.peelRetention <= result.peelRetention]_vars

\* C20 (as stated): for every number of days peelRetention is above 0 and
\* stretchChange below 1.3.
C20_StretchBelowCeiling ==
  op = "calculateAgingEffects"
    => (result.peelRetention > 0 /\ result.stretchChange < Milli(1300))

\* Rubber in the tropics after a year: most of the adhesion is gone, some is
\* left.
C20_RubberAfterAYear ==
  /\ op = "calculateAgingEffects"
  /\ params.adhesive = "Rubber"
  /\ params.environment = "Tropical"
  /\ params.timeImpactDays = 366
  /\ result.peelRetention > 0
  /\ result.peelRetention < Milli(1)

\* ------------------------------------------------------------------------
\* Misuse: keys that are in no table, a thickness that is absent, zero or
\* negative, a negative number of days, a width or height of zero
\* ------------------------------------------------------------------------

MisuseBackings == {"PVC", "Vinyl"}

MisuseSurfaces == {"Glass", "Paper Note", "Concrete"}

MisuseAdhesives == {"Acrylic", "Hotmelt"}

MisuseEnvironments == {"Tropical", "Polar"}

MisuseThicknesses == {Undefined, Whole(0 - ThicknessStep), 0, Whole(ThicknessStep)}

MisuseTimes == {Undefined, 0 - DayStep, -1, 0, DayStep}

MisuseWidths == {Undefined, 0, Whole(WidthStep)}

MisuseHeights == {Undefined, 0}

InitMisuse ==
  /\ op = "none"
  /\ result = Null
  /\ Loaded
  /\ \E b \in MisuseBackings, s \in MisuseSurfaces, a \in MisuseAdhesives,
        e \in MisuseEnvironments, t \in MisuseThicknesses, d \in MisuseTimes,
        w \in MisuseWidths, h \in MisuseHeights :
       params = [TapeParams(b, s, a, e, t, d)
                   EXCEPT !.tape1 = b, !.tape2 = "PVC", !.backing = b,
                          !.width = w, !.height = h]

NextMisuse ==
  \/ TapeProperties
  \/ MixedTapeProperties
  \/ SurfaceDamageRisk
  \/ TapeYellowTint

SpecMisuse == InitMisuse /\ [][NextMisuse]_vars

\* The numbers a result spells in its numeric fields.
NumbersOf(name, value) ==
  CASE name = "calculateTapeProperties" ->
         {value.peel, value.hold, value.stretch, value.totalThickness, value.temperatureEffect}
    [] name = "calculateMixedTapeProperties" ->
         {value.peel, value.hold, value.stretch, value.totalThickness}
    [] name = "calculateSurfaceDamageRisk" ->
         {value.tapeForce} \cup { value.safetyFactor[i] : i \in DOMAIN value.safetyFactor }
           \cup { value.surfaceStrength[i] : i \in DOMAIN value.surfaceStrength }
    [] name = "calculateTapeYellowTint" ->
         {value.intensity, value.uvComponent, value.residueComponent}
           \cup { value.color[i] : i \in DOMAIN value.color }
           \cup { value.cssFilter[f] : f \in DOMAIN value.cssFilter }
    [] OTHER -> {}

\* C15: calculateTapeProperties, calculateMixedTapeProperties,
\* calculateSurfaceDamageRisk and calculateTapeYellowTint return, for keys
\* that are in no table, a thickness that is absent, zero or negative, a
\* negative timeImpactDays and a width or height of zero, a result whose
\* numeric fields are all finite numbers.
C15_MisuseGivesNumbers ==
  \A v \in NumbersOf(op, result) : IsFinite(v)

\* ------------------------------------------------------------------------
\* The combined tint (checked under SpecTint)
\* ------------------------------------------------------------------------

\* C21: calculateTapeYellowTint returns uvComponent and residueComponent as
\* calculateUVDegradation and calculateAdhesiveResidue give them on the same
\* configuration, intensity = min(1, 0.7 * max(uv, residue) + 0.3 * (uv +
\* residue)) (to the last two digits kept) in [0, 1], an alpha that is
\* 0.6 * intensity to three decimals and at most 0.6; and the intensity does
\* not decrease from one day to the next.
C21_TintBlend ==
  /\ [](op = "calculateTapeYellowTint"
          => LET uv == result.uvComponent
                 residue == result.residueComponent
                 tenfold == 7 * (IF uv >= residue THEN uv ELSE residue) + 3 * (uv + residue)
                 expected == IF tenfold >= 10 * Scale THEN 10 * Scale ELSE tenfold
             IN  /\ uv = calculateUVDegradation(params)
                 /\ residue = calculateAdhesiveResidue(params)
                 /\ 10 * result.intensity - expected <= 20
                 /\ expected - 10 * result.intensity <= 20
                 /\ result.intensity >= 0 /\ result.intensity <= Scale
                 /\ result.color[4] * 10000 - result.intensity * 6 <= 5000
                 /\ result.intensity * 6 - result.color[4] * 10000 <= 5000
                 /\ result.color[4] <= 600)
  /\ [][(op = "calculateTapeYellowTint" /\ op' = op)
          => result'.intensity >= result.intensity]_vars

\* A tint followed for a year with both components present and the
\* intensity below the cap.
C21_BothComponents ==
  /\ op = "calculateTapeYellowTint"
  /\ params.timeImpactDays = 366
  /\ result.uvComponent > 0
  /\ result.residueComponent > result.uvComponent
  /\ result.intensity < Scale

\* ------------------------------------------------------------------------
\* Aging in the report of calculateTapeProperties (checked under Spec)
\* ------------------------------------------------------------------------

\* The configuration without its elapsed time.
Fresh(p) == [p EXCEPT !.timeImpactDays = Undefined]

\* Neither Math.max of the peel and hold formulas holds the value up, with
\* the elapsed time or without it.
NoFloorActive(p) ==
  /\ UnflooredPeel(p) > Milli(100)
  /\ UnflooredHold(p) > Milli(500)
  /\ UnflooredPeel(Fresh(p)) > Milli(100)
  /\ UnflooredHold(Fresh(p)) > Milli(500)

\* C22: in calculateTapeProperties with timeImpactDays > 0 and no floor
\* active, the reported peel is the peel of the same configuration without
\* elapsed time multiplied once by peelRetention, and the reported hold the
\* unaged hold multiplied once by holdRetention (both with the temperature
\* effect, to a hundredth).
C22_AgingAppliedOnce ==
  (op = "calculateTapeProperties" /\ TimeSpecified(params) /\ NoFloorActive(params))
    => LET aging == calculateAgingEffects(params)
           envData == OrDefault(ENVIRONMENTAL_CONDITIONS, params.environment, "Dry")
           tempEffect == calculateTemperatureEffect(Whole(envData.temperature.typical),
                                                    params.adhesive)
           oncePeel == ToFixed2(Mul(Mul(calculatePeelAdhesion(Fresh(params)),
                                        aging.peelRetention), tempEffect))
           onceHold == ToFixed2(Mul(Mul(calculateHoldStrength(Fresh(params)),
                                        aging.holdRetention), tempEffect))
       IN  /\ result.peel - oncePeel <= 1 /\ oncePeel - result.peel <= 1
           /\ result.hold - onceHold <= 1 /\ onceHold - result.hold <= 1

\* ------------------------------------------------------------------------
\* Symmetry of the composite (checked under SpecComposite)
\* ------------------------------------------------------------------------

\* The configuration with its two backings exchanged.
Swapped(p) == [p EXCEPT !.tape1 = p.tape2, !.tape2 = p.tape1]

\* C23: exchanging tape1 and tape2 leaves the peel, hold, stretch and
\* totalThickness of calculateMixedTapeProperties as they are, and its peel
\* and hold are those calculateTapeProperties reports at half the thickness
\* for any backing key.
C23_SymmetricInBackings ==
  op = "calculateMixedTapeProperties"
    => /\ LET swapped == calculateMixedTapeProperties(Swapped(params))
           IN  /\ swapped.peel = result.peel
               /\ swapped.hold = result.hold
               /\ swapped.stretch = result.stretch
               /\ swapped.totalThickness = result.totalThickness
       /\ \A b \in CompositeBackings \cup {params.tape1, params.tape2} :
            /\ SingleLayer(params, b).peel = result.peel
            /\ SingleLayer(params, b).hold = result.hold

\* A composite of two backings whose stretch differs; exchanged, its
\* description is another.
C23_ExchangedBackings ==
  /\ op = "calculateMixedTapeProperties"
  /\ CompositeKeysKnown(params)
  /\ SingleLayer(params, params.tape1).stretch # SingleLayer(params, params.tape2).stretch
  /\ calculateMixedTapeProperties(Swapped(params)).description # result.description

\* ------------------------------------------------------------------------
\* Width and height of the strip (checked under SpecRisk)
\* ------------------------------------------------------------------------

TierRank(damageRisk) ==
  CASE damageRisk = "low" -> 1
    [] damageRisk = "moderate" -> 2
    [] damageRisk = "high" -> 3
    [] damageRisk = "critical" -> 4

\* The widths of RiskWidths that are at least the width of p.
WidthsFrom(p) == { w \in RiskWidths \ {Undefined} : w >= WidthOrDefault(p) }

\* No wider strip on the surface of the call has a less severe tier.
WiderIsNoSafer ==
  \A w \in WidthsFrom(params) :
    TierRank(calculateSurfaceDamageRisk([params EXCEPT !.width = w]).damageRisk)
      >= TierRank(result.damageRisk)

\* C25, as the code has it: on a surface with a rupture entry the tier is
\* monotone in width (a wider strip is never in a less severe tier), and
\* safetyFactor * tapeForce equals the typical rupture strength up to the
\* rounding of the division and the multiplication.
C25_MonotoneInWidth ==
  (op = "calculateSurfaceDamageRisk" /\ result.canDamage)
    => /\ WiderIsNoSafer
       /\ result.surfaceStrength[1] - Mul(result.safetyFactor[1], result.tapeForce)
            \in 0 .. (result.tapeForce \div Scale + 1)

\* C25, as stated: the tier is monotone in width and the product of
\* safetyFactor and tapeForce is the typical rupture strength itself.
C25_ProductIsStrength ==
  (op = "calculateSurfaceDamageRisk" /\ result.canDamage)
    => /\ WiderIsNoSafer
       /\ Mul(result.safetyFactor[1], result.tapeForce) = result.surfaceStrength[1]

\* A strip 35 mm wide in a tier that a strip 105 mm wide leaves for a more
\* severe one.
C25_WiderIsWorse ==
  /\ op = "calculateSurfaceDamageRisk"
  /\ result.canDamage
  /\ params.width = Whole(WidthStep)
  /\ TierRank(calculateSurfaceDamageRisk(
                 [params EXCEPT !.width = Whole(WidthStep * MaxWidthSteps)]).damageRisk)
       > TierRank(result.damageRisk)

\* ------------------------------------------------------------------------
\* The tint between its components (checked under SpecTint)
\* ------------------------------------------------------------------------

\* The larger of the two components of a tint, and their sum held at 1.
LargerComponent(tint) ==
  IF tint.uvComponent >= tint.residueComponent THEN tint.uvComponent
  ELSE tint.residueComponent

ComponentSum(tint) ==
  IF tint.uvComponent + tint.residueComponent >= Scale THEN Scale
  ELSE tint.uvComponent + tint.residueComponent

\* C26, as the code has it: the intensity of calculateTapeYellowTint is at
\* most min(1, uvComponent + residueComponent) and at least
\* max(uvComponent, residueComponent) up to the rounding of the two
\* products, and it is 0 exactly when both components are 0.
C26_BetweenComponents ==
  op = "calculateTapeYellowTint"
    => /\ result.intensity >= LargerComponent(result) - 2
       /\ result.intensity <= ComponentSum(result)
       /\ result.intensity = 0 <=> (result.uvComponent = 0 /\ result.residueComponent = 0)

\* C26, as stated: the intensity is never below the larger component.
C26_AtLeastLargerComponent ==
  op = "calculateTapeYellowTint"
    => /\ result.intensity >= LargerComponent(result)
       /\ result.intensity <= ComponentSum(result)
       /\ result.intensity = 0 <=> (result.uvComponent = 0 /\ result.residueComponent = 0)

\* A tint of residue alone, on a backing the table does not have: the two
\* bounds meet at the residue.
C26_ResidueAlone ==
  /\ op = "calculateTapeYellowTint"
  /\ result.uvComponent = 0
  /\ result.residueComponent > 0
  /\ result.intensity < Scale
  /\ result.intensity > 0

\* ------------------------------------------------------------------------
\* The two copies of the module (checked under Spec)
\* ------------------------------------------------------------------------

\* C27: the second copies of calculatePeelAdhesion, calculateHoldStrength
\* and calculateTapeProperties return what the first copies return, with
\* and without timeImpactDays.
C27_CopiesAgree ==
  /\ op = "calculatePeelAdhesion" => result = SecondCopyPeelAdhesion(params)
  /\ op = "calculateHoldStrength" => result = SecondCopyHoldStrength(params)
  /\ op = "calculateTapeProperties" => result = SecondCopyTapeProperties(params)

\* ------------------------------------------------------------------------
\* The layout helpers: initFiveColumn, initPhoneOneColumn (desktop_size.js)
\* and initTabletThreeColumn.  Lengths are in px.
\* ------------------------------------------------------------------------

\* v || fallback for a number or an absent option.
OrElse(v, fallback) == IF v = Undefined \/ v = 0 THEN fallback ELSE v

\* Math.floor(a / b) for a >= 0 and any b # 0.
FloorDiv(a, b) == IF b > 0 THEN a \div b ELSE 0 - ((a + (0 - b) - 1) \div (0 - b))

\* Math.round(width * f / 100) for width >= 0.
RoundPercent(width, f) == (width * f + 50) \div 100

\* The values of style.gridTemplateColumns: '', '1fr' and 'repeat(n, 1fr)'.
NoColumns == << >>

OneFr == << "1fr" >>

Repeat(cols) == << "repeat", cols >>

\* The gap values the style accepts; an assignment of any other string
\* leaves style.gap as it is.
GapValues == {"8px", "12px", "16px", "20px"}

\* The gap assigned whatever the style holds.
GapAfter_overwriting(c, fallback) ==
  LET value == IF c.cssGap # "" THEN c.cssGap ELSE fallback
  IN  IF value \in GapValues THEN value ELSE c.gap

\* container.style.gap || getComputedStyle(container).getPropertyValue('--gap')
\* || fallback, assigned to style.gap.
GapAfter(c, fallback) ==
  LET value == IF c.gap # "" THEN c.gap ELSE IF c.cssGap # "" THEN c.cssGap ELSE fallback
  IN  IF value \in GapValues THEN value ELSE c.gap

\* Math.max(0, container.clientWidth || container.getBoundingClientRect().width)
MeasuredWidth(c) ==
  LET measured == IF c.clientWidth # 0 THEN c.clientWidth ELSE c.boundingWidth
  IN  IF measured >= 0 THEN measured ELSE 0

\* style.setProperty(name, value): custom with name bound to value.
SetProperty(custom, name, value) ==
  [ n \in DOMAIN custom \cup {name} |-> IF n = name THEN value ELSE custom[n] ]

\* The options of the helpers as the auto-initialisation passes them (none),
\* with the defaults of the source.
maxPhoneWidth == OrElse(Undefined, 480)

minTabletWidth == OrElse(Undefined, 481)

maxTabletWidth == OrElse(Undefined, 1024)

columns == OrElse(Undefined, 3)

\* aspectRatio, in hundredths.
aspectRatio == OrElse(Undefined, 75)

\* cols of the desktop helper with the cap left out.
DesktopColumns_uncapped(width, opts) ==
  LET minColWidth == OrElse(opts.minColumnWidth, 160)
      uncapped == FloorDiv(width, minColWidth)
  IN  IF uncapped >= 1 THEN uncapped ELSE 1

\* cols of the desktop helper.
DesktopColumns(width, opts) ==
  LET minColWidth == OrElse(opts.minColumnWidth, 160)
      maxColumns == OrElse(opts.maxColumns, 5)
  IN  Min(maxColumns, Max(1, FloorDiv(width, minColWidth)))

\* applyTo of initFiveColumn.
FiveColumn_applyTo(c, opts) ==
  LET width == MeasuredWidth(c)
      cols == DesktopColumns(width, opts)
  IN  [c EXCEPT !.display = "grid",
                !.gridTemplateColumns = Repeat(cols),
                !.gap = GapAfter(c, "16px"),
                !.custom = SetProperty(@, "--five-aspect-ratio", aspectRatio)]

\* applyTo of initPhoneOneColumn.
PhoneOneColumn_applyTo(c) ==
  LET width == MeasuredWidth(c)
      pad == Max(8, RoundPercent(width, 3))
  IN  IF width <= maxPhoneWidth
        THEN [c EXCEPT !.display = "grid",
                       !.gridTemplateColumns = OneFr,
                       !.gap = GapAfter(c, "12px"),
                       !.custom =
                         SetProperty(
                           SetProperty(
                             SetProperty(
                               SetProperty(@, "--five-aspect-ratio", aspectRatio),
                               "--phone-button-height", 44),
                             "--phone-min-font-size", 14),
                           "--phone-item-padding", pad)]
        ELSE c

\* applyTo of initTabletThreeColumn.
TabletThreeColumn_applyTo(c) ==
  LET width == MeasuredWidth(c)
      pad == Max(10, RoundPercent(width, 2))
  IN  IF width >= minTabletWidth /\ width <= maxTabletWidth
        THEN [c EXCEPT !.display = "grid",
                       !.gridTemplateColumns = Repeat(columns),
                       !.gap = GapAfter(c, "16px"),
                       !.custom =
                         SetProperty(
                           SetProperty(
                             SetProperty(
                               SetProperty(@, "--five-aspect-ratio", aspectRatio),
                               "--tablet-button-height", 48),
                             "--tablet-min-font-size", 15),
                           "--tablet-item-padding", pad)]
        ELSE [c EXCEPT !.custom = SetProperty(@, "--five-aspect-ratio", aspectRatio)]

Helpers == {"desktop", "phone", "tablet"}

\* applyTo of a helper on the container.
ApplyTo(helper, c, opts) ==
  CASE helper = "desktop" -> FiveColumn_applyTo(c, opts)
    [] helper = "phone" -> PhoneOneColumn_applyTo(c)
    [] helper = "tablet" -> TabletThreeColumn_applyTo(c)

\* The names of the code of a helper: its init function, the refresh it
\* returns, its ResizeObserver callback and its window resize listener.
HelperCode ==
  [ desktop |-> [ init |-> "initFiveColumn", refresh |-> "initFiveColumn.refresh",
                  observer |-> "initFiveColumn.ResizeObserver",
                  resize |-> "initFiveColumn.resize" ],
    phone |-> [ init |-> "initPhoneOneColumn", refresh |-> "initPhoneOneColumn.refresh",
                observer |-> "initPhoneOneColumn.ResizeObserver",
                resize |-> "initPhoneOneColumn.resize" ],
    tablet |-> [ init |-> "initTabletThreeColumn", refresh |-> "initTabletThreeColumn.refresh",
                 observer |-> "initTabletThreeColumn.ResizeObserver",
                 resize |-> "initTabletThreeColumn.resize" ] ]

\* The ops in which applyTo of a helper has just run.
RunsOf(helper) ==
  { HelperCode[helper].init, HelperCode[helper].refresh,
    HelperCode[helper].observer, HelperCode[helper].resize }

\* The elements of a sequence.
Elements(seq) == { seq[i] : i \in 1..Len(seq) }

\* Container widths: 0, LayoutStep, ..., and the thresholds of the helpers.
LayoutStep == 160

MaxLayoutSteps == 7

ContainerWidths ==
  { k * LayoutStep : k \in 0..MaxLayoutSteps }
    \cup {maxPhoneWidth, minTabletWidth, maxTabletWidth, maxTabletWidth + 1}

\* clientWidth and getBoundingClientRect().width of the container: equal,
\* or clientWidth 0 on an element laid out inline, two steps wide.
ContainerSizes ==
  { <<w, w>> : w \in ContainerWidths } \cup { <<0, 2 * LayoutStep>> }

\* The container as the page declares it: no grid yet, its gap as the
\* author's inline style and --gap variable give them.
DeclaredContainer(size, cssGap, gap) ==
  [ cssGap |-> cssGap, gap |-> gap, clientWidth |-> size[1], boundingWidth |-> size[2],
    custom |-> [ n \in {} |-> 0 ], display |-> "", gridTemplateColumns |-> NoColumns ]

\* opts of initFiveColumn.
FiveColumnOpts(minColumnWidth, maxColumns) ==
  [ minColumnWidth |-> minColumnWidth, maxColumns |-> maxColumns ]

\* The page before any helper is initialised.  hasContainer: some element
\* matches the selector.
InitPage(optsChoices, cssGaps, gaps) ==
  /\ op = "none"
  /\ result = Null
  /\ tables = ReferenceTables
  /\ reported = << >>
  /\ params \in optsChoices
  /\ \/ container = Null
     \/ \E size \in ContainerSizes, cssGap \in cssGaps, gap \in gaps :
          container = DeclaredContainer(size, cssGap, gap)
  /\ \E observerExists \in BOOLEAN :
       window = [ ResizeObserver |-> observerExists, helpers |-> << >>, pending |-> << >>,
                  notified |-> << >> ]

\* reported with the helper added on its first applyTo.
FirstRuns(helper) ==
  IF helper \in Elements(reported) THEN reported ELSE Append(reported, helper)

\* init...(selector, opts) of a helper: null where no element matches;
\* otherwise the observer or the listener is registered and applyAll runs.
\* observe() delivers a first callback of its own.
InitHelper(helper) ==
  /\ helper \notin Elements(window.helpers)
  /\ op' = HelperCode[helper].init
  /\ IF container = Null
       THEN /\ result' = Null
            /\ UNCHANGED <<container, window, reported>>
       ELSE /\ result' = Some(helper)
            /\ container' = ApplyTo(helper, container, params)
            /\ window' = [window EXCEPT
                 !.helpers = Append(@, helper),
                 !.pending = IF window.ResizeObserver THEN Append(@, helper) ELSE @]
            /\ reported' = FirstRuns(helper)
  /\ UNCHANGED <<params, tables>>

\* refresh() of the object a helper returned.
Refresh(helper) ==
  /\ helper \in Elements(window.helpers)
  /\ op' = HelperCode[helper].refresh
  /\ result' = Null
  /\ container' = ApplyTo(helper, container, params)
  /\ reported' = FirstRuns(helper)
  /\ UNCHANGED <<params, tables, window>>

\* The container takes another size; every helper initialised has a
\* callback to run, in the order the helpers were initialised.  notified
\* keeps the helpers the latest resize was delivered to.
Resize ==
  /\ container # Null
  /\ window.helpers # << >>
  /\ \E size \in ContainerSizes :
       /\ size # <<container.clientWidth, container.boundingWidth>>
       /\ container' = [container EXCEPT !.clientWidth = size[1], !.boundingWidth = size[2]]
  /\ window' = [window EXCEPT !.pending = window.helpers, !.notified = window.helpers]
  /\ op' = "resized"
  /\ result' = Null
  /\ UNCHANGED <<params, tables, reported>>

\* The next callback due: the ResizeObserver callback of the helper, or its
\* window resize listener where ResizeObserver does not exist.
Callback ==
  /\ window.pending # << >>
  /\ LET helper == Head(window.pending)
     IN  /\ op' = IF window.ResizeObserver
                    THEN HelperCode[helper].observer
                    ELSE HelperCode[helper].resize
         /\ container' = ApplyTo(helper, container, params)
         /\ reported' = FirstRuns(helper)
  /\ window' = [window EXCEPT !.pending = Tail(@)]
  /\ result' = Null
  /\ UNCHANGED <<params, tables>>

\* --- the desktop helper alone, with the opts of its caller ---

\* A minimum column width and a column cap a caller passes.
ColumnWidthOption == 100

ColumnsOption == 3

DesktopOpts ==
  { FiveColumnOpts(w, c) : w \in {Undefined, 0, ColumnWidthOption},
                           c \in {Undefined, 0, 1, ColumnsOption} }

InitDesktop == InitPage(DesktopOpts, {"", "8px"}, {""})

InitFiveColumn == InitHelper("desktop")

RefreshFiveColumn == Refresh("desktop")

NextDesktop ==
  \/ InitFiveColumn
  \/ RefreshFiveColumn
  \/ Resize
  \/ Callback

SpecDesktop == InitDesktop /\ [][NextDesktop]_vars

\* The column count the width and the opts call for, by its defining
\* inequalities: k columns of the minimum width fit and k + 1 do not, within
\* 1..maxColumns.
FittingColumns(width, minColWidth, maxColumns) ==
  CHOOSE k \in 1..maxColumns :
    /\ k * minColWidth <= width \/ k = 1
    /\ (k + 1) * minColWidth > width \/ k = maxColumns

\* C28: after every run of the desktop helper's applyTo the container has
\* min(maxColumns, max(1, floor(width / minColumnWidth))) columns, a count
\* within 1..maxColumns, also for width 0.
C28_DesktopColumnCount ==
  (op \in RunsOf("desktop") /\ container # Null)
    => LET minColWidth == IF params.minColumnWidth \in {Undefined, 0}
                            THEN 160 ELSE params.minColumnWidth
           maxColumns == IF params.maxColumns \in {Undefined, 0} THEN 5 ELSE params.maxColumns
           width == IF container.clientWidth = 0
                      THEN container.boundingWidth ELSE container.clientWidth
       IN  /\ container.gridTemplateColumns =
                Repeat(FittingColumns(width, minColWidth, maxColumns))
           /\ container.gridTemplateColumns[2] \in 1..maxColumns
           /\ container.display = "grid"

\* The desktop helper's callback has run on a container of width 0: one
\* column.
C28_ZeroWidth ==
  /\ op = HelperCode.desktop.observer
  /\ container.clientWidth = 0
  /\ container.boundingWidth = 0
  /\ container.gridTemplateColumns = Repeat(1)

\* --- the three helpers on one container, initialised without opts ---

NoOpts == FiveColumnOpts(Undefined, Undefined)

\* --gap as the stylesheet gives it: not set, a length, or a word that is no
\* gap; style.gap as the author's inline style gives it.
InitLayout == InitPage({NoOpts}, {"", "8px", "wide"}, {"", "20px"})

InitAnyHelper == \E helper \in Helpers : InitHelper(helper)

NextLayout ==
  \/ InitAnyHelper
  \/ Resize
  \/ Callback

SpecLayout == InitLayout /\ [][NextLayout]_vars

\* The latest resize was delivered to all three helpers and each has run
\* its callback.
AllCallbacksRun ==
  /\ container # Null
  /\ Elements(window.notified) = Helpers
  /\ window.pending = << >>
  /\ op # "resized"

\* C29: with the three helpers initialised on the container, once every
\* helper's callback for the latest resize has run, a container at most
\* 480 px wide has the single column '1fr' and a container 481..1024 px wide
\* has three equal columns, whatever the order of the callbacks.
C29_ColumnsByWidth ==
  AllCallbacksRun
    => LET width == MeasuredWidth(container)
       IN  /\ width <= 480 => container.gridTemplateColumns = OneFr
           /\ (width >= 481 /\ width <= 1024) => container.gridTemplateColumns = Repeat(3)

\* style.gap, once not empty, stays as it is.
GapKept ==
  [][(container # Null /\ container.gap # "") => container'.gap = container.gap]_vars

\* C30, as the code has it: a style.gap that is not empty is changed by no
\* later applyTo of any helper, and 12px is assigned only by a run of the
\* phone helper at a width of at most 480 px on a container whose style.gap
\* and --gap are both empty.
C30_GapSetOnce ==
  /\ GapKept
  /\ [][(container # Null /\ container'.gap = "12px" /\ container.gap # "12px")
          => /\ op' \in RunsOf("phone")
             /\ container.gap = ""
             /\ container.cssGap = ""
             /\ MeasuredWidth(container) <= maxPhoneWidth]_vars

\* C30, as stated: a style.gap that is not empty is never changed, and
\* where the gap is the phone helper's 12px the phone helper was the first
\* helper to run on the container.
C30_PhoneRanFirst ==
  /\ GapKept
  /\ [](container # Null /\ container.gap = "12px"
          => (reported # << >> /\ reported[1] = "phone"))

\* The phone helper has set its 12px, and after a resize the desktop and the
\* tablet helper have run on the container.
C30_PhoneGapSurvives ==
  /\ container # Null
  /\ container.gap = "12px"
  /\ container.gridTemplateColumns = Repeat(3)
  /\ Elements(reported) = Helpers
  /\ op \in RunsOf("tablet")

====
